---- MODULE Spec2Model ----
(***************************************************************************)
(* Message-processing pipeline of Delegado-DermoFarm: the Celery task      *)
(* apps.chat.tasks.process_message, the responder                          *)
(* ChatProcessor.process_message it runs, and the channels that persist a   *)
(* message and enqueue the task.  One conversation is modelled:             *)
(* conversations share nothing but the store.                               *)
(*                                                                         *)
(* A row of the Message table is a record; its id is its position in msgs  *)
(* (rows are never deleted, ids grow with the creation timestamp).  A       *)
(* content is a record [k, m, s]: k names the text, m is the inbound id an  *)
(* answer text was computed for, s is the number of '*' that wrap it (what  *)
(* the WhatsApp formatting rewrites).  Fields "of" and "by" of a row are    *)
(* history fields: the inbound message a placeholder was created for, and   *)
(* the inbound message whose task wrote the row last.                       *)
(***************************************************************************)
EXTENDS Integers, Sequences, FiniteSets, TLC

\* ------------------------------------------------------------------ bounds
MaxIn == 2
MaxTasks == 3
Workers == 2
MaxStars == 3

\* --------------------------------------------------------- program constants
max_retries == 3

NoSuchId == 0

VARIABLES msgs, qaRows, storeUp, tasks

\* The tables and the last HTTP response of the views that receive a message.
VARIABLES conversations, agentActive, reply

\* The WhatsApp webhook's share: the cache keys whatsapp_msg_<id>, the runs of
\* handle_whatsapp_message, and the WhatsAppMessage tracking rows.
VARIABLES locks, handlers, tracked

wa == <<locks, handlers, tracked>>

\* QAService on its own: the Question table, the query put to process_query,
\* the match it got from find_matching_question, what it returned and
\* the number of QAInteraction rows it logged.
VARIABLES questions, user_query, qa_match, qa_result, qa_logged

qa == <<questions, user_query, qa_match, qa_result, qa_logged>>

\* The Answer table and the add_answer requests being served.
VARIABLES answers, adders

qna == <<answers, adders>>

\* One conversation with SmartResponseEngine: the Pharmacy and Visit tables,
\* the Feedback rows, the delegate of the conversation, its Message rows in
\* timestamp order and what ChatProcessor.process_message did last.
VARIABLES pharmacies, visits, feedbacks, conv_delegate, chat_log, last_turn

dlg == <<pharmacies, visits, feedbacks, conv_delegate, chat_log, last_turn>>

back == <<qa, qna, dlg>>

front == <<conversations, agentActive, reply, wa, back>>

vars == <<msgs, qaRows, storeUp, tasks>>

\* ------------------------------------------------------------------ texts
Content(k, m, s) == [k |-> k, m |-> m, s |-> s]

\* "Procesando respuesta..."
PLACEHOLDER == Content("Procesando respuesta...", 0, 0)
\* "Lo siento, ocurrio un error al procesar tu mensaje. Por favor, intenta de nuevo en unos momentos."
ERROR_RESPONSE == Content("error al procesar, intenta en unos momentos", 0, 0)
\* "Lo siento, no pude procesar tu mensaje en este momento. Por favor, intenta nuevamente."
FRIENDLY_ERROR == Content("no pude procesar tu mensaje", 0, 0)
\* "Lo siento, ocurrio un error al procesar tu mensaje. Por favor, intenta de nuevo."
FINAL_ERROR == Content("error al procesar, intenta de nuevo", 0, 0)
\* f"Error procesando el mensaje: {str(e)}"
PIPELINE_ERROR == Content("Error procesando el mensaje", 0, 0)
NoText == Content("", 0, 0)

Apologies == {ERROR_RESPONSE, FRIENDLY_ERROR, FINAL_ERROR}

\* Inbound texts: one that equals an active Question with an Answer, one that
\* matches no Question.
Texts == {"faq", "otro"}

QAMatches(text) == text = "faq"

\* What SmartResponseEngine.process_message can hand back to the responder:
\* a reply, a reply after writing __STATE__/__DATA__ rows, or "__USE_GPT__".
EngineOutcomes == {"reply", "reply_saved", "__USE_GPT__"}

\* The LLM's text comes wrapped in 0 or MaxStars '*' on each side.
LLMStars == {0, MaxStars}

\* ------------------------------------ ChatGPTService.process_message
\* services.py 80-94: the texts returned by the four except clauses
LLM_AUTH_ERROR == Content("problema de autenticacion con el servicio", 0, 0)
LLM_API_ERROR == Content("hubo un error al procesar tu mensaje", 0, 0)
LLM_TIMEOUT_ERROR == Content("El servicio esta tardando demasiado", 0, 0)
LLM_UNEXPECTED_ERROR == Content("ocurrio un error inesperado", 0, 0)

\* What openai.ChatCompletion.create can raise: the three classes the code
\* names, another subclass of OpenAIError, and an exception of another
\* family.  "none": it returns.
LLMRaises == {"AuthenticationError", "APIError", "Timeout", "RateLimitError", "KeyError"}

\* openai.error: every class derives from OpenAIError directly.
Bases(e) ==
    IF e \in {"AuthenticationError", "APIError", "Timeout", "RateLimitError"}
    THEN {e, "OpenAIError", "Exception"}
    ELSE {e, "Exception"}

\* The except clauses in the order they are written.
ExceptClauses ==
    << [class |-> "AuthenticationError", text |-> LLM_AUTH_ERROR],
       [class |-> "APIError", text |-> LLM_API_ERROR],
       [class |-> "Timeout", text |-> LLM_TIMEOUT_ERROR],
       [class |-> "Exception", text |-> LLM_UNEXPECTED_ERROR] >>

\* The first clause whose class the raised exception is an instance of.
Caught(e) ==
    LET hits == {i \in DOMAIN ExceptClauses : ExceptClauses[i].class \in Bases(e)}
    IN  ExceptClauses[CHOOSE i \in hits : \A j \in hits : i <= j]

\* One clause, except Exception, in front of the others.
ChatGPTService_process_message_catch_all(raised, mid, stars) ==
    IF raised = "none" THEN Content("llm", mid, stars) ELSE LLM_UNEXPECTED_ERROR

ChatGPTService_process_message(raised, mid, stars) ==
    IF raised = "none" THEN Content("llm", mid, stars) ELSE Caught(raised).text

\* re.sub(r'\*\*(.*?)\*\*', r'*\1*', content) on a text wrapped in s stars on
\* each side leaves (s + 1) \div 2 of them.
FormatStars(s) == (s + 1) \div 2

prepare_message_for_whatsapp(c) == Content(c.k, c.m, FormatStars(c.s))

_format_for_whatsapp(c) == Content(c.k, c.m, FormatStars(c.s))

\* ------------------------------------------------------------------- store
Row(dir, content, ai, of, by) ==
    [direction |-> dir, content |-> content, ai_processed |-> ai, of |-> of, by |-> by]

Ids == DOMAIN msgs

InboundIds == {i \in Ids : msgs[i].direction = "IN"}

Range(f) == {f[i] : i \in DOMAIN f}

Max(S) == CHOOSE x \in S : \A y \in S : y <= x

\* Message.objects.filter(conversation, direction='OUT',
\*     content="Procesando respuesta...").order_by('-timestamp').first()
Pending(ms) ==
    {i \in DOMAIN ms : ms[i].direction = "OUT" /\ ms[i].content = PLACEHOLDER}

LatestPlaceholder(ms) == IF Pending(ms) = {} THEN 0 ELSE Max(Pending(ms))

\* placeholder.content = c; placeholder.ai_processed = True; placeholder.save()
SavePlaceholder(ms, p, c, mid) ==
    [ms EXCEPT ![p].content = c, ![p].ai_processed = TRUE, ![p].by = mid]

\* The row is built and never written.
create_response_message_unsaved(ms, c, mid) == ms

\* ChatProcessor.create_response_message
create_response_message(ms, c, mid) == Append(ms, Row("OUT", c, TRUE, 0, mid))

\* ------------------------------------------------------------------- tasks
NewTask(mid, source) ==
    [mid |-> mid, source |-> source, retries |-> 0, runs |-> 0, countdown |-> 0,
     pc |-> "queued", placeholder |-> 0, success |-> FALSE, response |-> NoText,
     smart_response |-> "", response_message |-> 0, stages |-> << >>,
     saved |-> FALSE, raised |-> "none", rows |-> 0, sendFailed |-> FALSE, swallowed |-> FALSE]

TaskIds == DOMAIN tasks

Idle == {"queued", "SUCCESS", "FAILURE"}

Running == {t \in TaskIds : tasks[t].pc \notin Idle}

Set(t, r) == tasks' = [tasks EXCEPT ![t] = r]

\* ---------------------------------------------------------------- channels
\* The placeholder is created before the user's row.
handle_incoming_message_placeholder_first(ms, text) ==
    LET id == Len(ms) + 1
    IN  ms \o << Row("OUT", PLACEHOLDER, FALSE, id, 0),
                 Row("IN", Content(text, 0, 0), FALSE, 0, 0) >>

\* ChatProcessor.handle_incoming_message: the IN row, then its placeholder.
handle_incoming_message(ms, text) ==
    LET id == Len(ms) + 1
    IN  ms \o << Row("IN", Content(text, 0, 0), FALSE, 0, 0),
                 Row("OUT", PLACEHOLDER, FALSE, id, 0) >>

NumInbound == Cardinality(InboundIds)

\* chat.views.send_message / send_chat_message: persist, then one delay().
WebSend(text) ==
    /\ storeUp
    /\ NumInbound < MaxIn
    /\ Len(tasks) < MaxTasks
    /\ msgs' = handle_incoming_message(msgs, text)
    /\ tasks' = Append(tasks, NewTask(Len(msgs) + 1, "web"))
    /\ UNCHANGED <<qaRows, storeUp>>

\* whatsapp.tasks.handle_whatsapp_message: WhatsAppService.handle_incoming_message
\* persists and calls process_message.delay, and the task calls it again.
WhatsAppInbound(text) ==
    /\ storeUp
    /\ NumInbound < MaxIn
    /\ Len(tasks) + 1 < MaxTasks
    /\ msgs' = handle_incoming_message(msgs, text)
    /\ tasks' = tasks \o << NewTask(Len(msgs) + 1, "whatsapp"),
                            NewTask(Len(msgs) + 1, "whatsapp") >>
    /\ UNCHANGED <<qaRows, storeUp>>

\* whatsapp.services.process_incoming_message (legacy task): delay() for
\* whatever id it is given, a row's or not.
LegacyEnqueue(mid) ==
    /\ Len(tasks) < MaxTasks
    /\ tasks' = Append(tasks, NewTask(mid, "whatsapp_legacy"))
    /\ UNCHANGED <<msgs, qaRows, storeUp>>

\* The database becomes unreachable, or reachable again.
StoreDown ==
    /\ storeUp
    /\ storeUp' = FALSE
    /\ UNCHANGED <<msgs, qaRows, tasks>>

StoreUp ==
    /\ ~storeUp
    /\ storeUp' = TRUE
    /\ UNCHANGED <<msgs, qaRows, tasks>>

\* --------------------------------------- ChatProcessor.process_message
\* The store operations of one call, in order: the Question lookup of
\* QAService.process_query, the session reads and writes of
\* SmartResponseEngine, the history query of build_message_context before the
\* LLM call, and message_obj.save().
\* No early return: every stage runs whatever the one before it found.
PathWithoutReturns(text, smart_response) == <<"qa", "engine", "llm", "mark">>

Path(text, smart_response) ==
    IF QAMatches(text) THEN <<"qa", "mark">>
    ELSE IF smart_response # "__USE_GPT__" THEN <<"qa", "engine", "mark">>
    ELSE <<"qa", "engine", "llm", "mark">>

\* The call on message mid with the given text; cut = 0 when no operation
\* raises, else the position in Path of the one that does.  The result names
\* what the call returns (success, response), the stages it entered, and what
\* it left in the store: logged (a QAInteraction row), saved (session rows),
\* marked (ai_processed on the inbound row).  raised is what the LLM call
\* raises inside ChatGPTService.process_message, "none" when it returns.
process_message(text, mid, smart_response, stars, raised, cut) ==
    LET path == Path(text, smart_response)
        entered == IF cut = 0 THEN path ELSE SubSeq(path, 1, cut)
        stages == SelectSeq(entered, LAMBDA x : x # "mark")
        last == path[Len(path) - 1]
        answer == IF last = "qa" THEN Content("qa", mid, 0)
                  ELSE IF last = "engine" THEN Content("engine", mid, 0)
                  ELSE ChatGPTService_process_message(raised, mid, stars)
    IN  [success  |-> cut = 0,
         response |-> IF cut = 0 THEN answer ELSE PIPELINE_ERROR,
         stages   |-> stages,
         raised   |-> IF "llm" \in Range(stages) /\ cut = 0 THEN raised ELSE "none",
         engine   |-> IF "engine" \in Range(SubSeq(path, 1, Len(entered) - 1))
                      THEN smart_response ELSE "",
         logged   |-> QAMatches(text) /\ cut # 1,
         saved    |-> /\ smart_response = "reply_saved"
                      /\ ~QAMatches(text)
                      /\ cut \notin {1, 2},
         marked   |-> cut = 0]

\* services.py 211-230: SmartResponseEngine._save_session_state and
\* _save_session_data keep the session as two more OUT rows of the
\* conversation.
STATE_ROW == Content("__STATE__:", 0, 0)

DATA_ROW == Content("__DATA__:", 0, 0)

_save_session(ms) ==
    ms \o << Row("OUT", STATE_ROW, TRUE, 0, 0), Row("OUT", DATA_ROW, TRUE, 0, 0) >>

\* ------------------------------------------------ process_message, one run
\* Every step below is one database or network operation of the task (the
\* responder's call is one step); an operation on the store raises whenever
\* the store is down.

\* The responder's locals, out of scope once its result is used.
Forget(r) == [r EXCEPT !.stages = << >>, !.saved = FALSE, !.smart_response = "",
                       !.success = FALSE]

Finish(r, status) ==
    [NewTask(r.mid, r.source) EXCEPT
        !.retries = r.retries, !.runs = r.runs, !.countdown = r.countdown,
        !.rows = r.rows, !.swallowed = r.swallowed, !.pc = status]

\* self.retry(countdown=2 ** self.request.retries): Celery schedules run
\* number retries + 1 unless that exceeds max_retries, and then raises
\* MaxRetriesExceededError, which ends the task.
CanRetryOnceMore(r) == r.retries <= max_retries

CanRetry(r) == r.retries + 1 <= max_retries

Pow2[n \in Nat] == IF n = 0 THEN 1 ELSE 2 * Pow2[n - 1]

\* The retry is scheduled with the request's count, not the next one.
RetrySameCount(r) ==
    IF CanRetry(r) /\ r.runs <= 2 * max_retries
    THEN [Finish(r, "queued") EXCEPT !.countdown = Pow2[r.retries]]
    ELSE Finish(r, "FAILURE")

Retry(r) ==
    IF CanRetry(r)
    THEN [Finish(r, "queued") EXCEPT
            !.retries = r.retries + 1, !.countdown = Pow2[r.retries],
            !.swallowed = FALSE]
    ELSE Finish(r, "FAILURE")

\* A missing row handled like any other exception.
LoadAnyException(t, pool) ==
    /\ tasks[t].pc = "queued"
    /\ Cardinality(Running) < pool
    /\ LET r == [tasks[t] EXCEPT !.runs = @ + 1]
       IN  IF ~storeUp \/ r.mid \notin Ids
           THEN Set(t, [r EXCEPT !.pc = "handler"])
           ELSE Set(t, [r EXCEPT !.pc = "select"])
    /\ UNCHANGED <<msgs, qaRows, storeUp>>

\* tasks.py 27: Message.objects.select_related('conversation').get(id=message_id)
Load(t, pool) ==
    /\ tasks[t].pc = "queued"
    /\ Cardinality(Running) < pool
    /\ LET r == [tasks[t] EXCEPT !.runs = @ + 1]
       IN  IF ~storeUp
           THEN Set(t, [r EXCEPT !.pc = "handler"])
           ELSE IF r.mid \notin Ids
           \* except Message.DoesNotExist: raise self.retry(...)
           THEN Set(t, Retry(r))
           ELSE Set(t, [r EXCEPT !.pc = "select"])
    /\ UNCHANGED <<msgs, qaRows, storeUp>>

\* tasks.py 31-38: the most recent placeholder row of the conversation
Select(t) ==
    /\ tasks[t].pc = "select"
    /\ IF ~storeUp
       THEN Set(t, [tasks[t] EXCEPT !.pc = "handler"])
       ELSE Set(t, [tasks[t] EXCEPT !.placeholder = LatestPlaceholder(msgs),
                                    !.pc = "pipeline"])
    /\ UNCHANGED <<msgs, qaRows, storeUp>>

\* tasks.py 43: success, response = processor.process_message(message)
Respond(t, smart_response, stars, raised, cut) ==
    LET r == tasks[t]
        res == process_message(msgs[r.mid].content.k, r.mid, smart_response, stars,
                               raised, cut)
    IN  /\ qaRows' = IF res.logged THEN [qaRows EXCEPT ![r.mid] = @ + 1] ELSE qaRows
        /\ msgs' = LET marked == IF res.marked
                                  THEN [msgs EXCEPT ![r.mid].ai_processed = TRUE]
                                  ELSE msgs
                   IN  IF res.saved THEN _save_session(marked) ELSE marked
        /\ Set(t, [r EXCEPT !.success = res.success, !.response = res.response,
                            !.stages = res.stages, !.saved = res.saved,
                            !.smart_response = res.engine, !.raised = res.raised,
                            !.rows = IF res.logged THEN @ + 1 ELSE @,
                            !.pc = IF res.success THEN "write" ELSE "report"])

Pipeline(t) ==
    /\ tasks[t].pc = "pipeline"
    /\ \E smart_response \in EngineOutcomes, stars \in LLMStars :
         Respond(t, smart_response, stars, "none", IF storeUp THEN 0 ELSE 1)
    /\ UNCHANGED storeUp

\* The same call when the LLM call raises.
PipelineLLMError(t) ==
    /\ tasks[t].pc = "pipeline"
    /\ storeUp
    /\ ~QAMatches(msgs[tasks[t].mid].content.k)
    /\ \E raised \in LLMRaises : Respond(t, "__USE_GPT__", 0, raised, 0)
    /\ UNCHANGED storeUp

\* The same call when the store goes down before one of its operations.
PipelineCut(t) ==
    /\ tasks[t].pc = "pipeline"
    /\ storeUp
    /\ storeUp' = FALSE
    /\ \E smart_response \in EngineOutcomes, stars \in LLMStars :
         \E cut \in 1 .. Len(Path(msgs[tasks[t].mid].content.k, smart_response)) :
            Respond(t, smart_response, stars, "none", cut)

\* tasks.py 45-60: not success: the error text goes to the placeholder or to a
\* new row, then raise Exception(error_msg)
Report(t) ==
    /\ tasks[t].pc = "report"
    /\ LET r == tasks[t]
       IN  /\ Set(t, [Forget(r) EXCEPT !.pc = "inner"])
           /\ IF ~storeUp
              THEN UNCHANGED msgs
              ELSE IF r.placeholder # 0
              THEN msgs' = SavePlaceholder(msgs, r.placeholder, ERROR_RESPONSE, r.mid)
              ELSE msgs' = create_response_message(msgs, ERROR_RESPONSE, r.mid)
    /\ UNCHANGED <<qaRows, storeUp>>

\* tasks.py 62-82: the answer goes to the placeholder or to a new row
Write(t) ==
    /\ tasks[t].pc = "write"
    /\ LET r == tasks[t]
           formatted_response ==
               IF r.source = "whatsapp"
               THEN prepare_message_for_whatsapp(r.response)
               ELSE r.response
           next == IF r.source = "whatsapp" THEN "send" ELSE "touch"
       IN  IF ~storeUp
           THEN Set(t, [Forget(r) EXCEPT !.pc = "inner"]) /\ UNCHANGED msgs
           ELSE IF r.placeholder # 0
           THEN /\ msgs' = SavePlaceholder(msgs, r.placeholder, formatted_response, r.mid)
                /\ Set(t, [Forget(r) EXCEPT !.response = formatted_response,
                                    !.response_message = r.placeholder, !.pc = next])
           ELSE /\ msgs' = create_response_message(msgs, formatted_response, r.mid)
                /\ Set(t, [Forget(r) EXCEPT !.response = formatted_response,
                                    !.response_message = Len(msgs) + 1, !.pc = next])
    /\ UNCHANGED <<qaRows, storeUp>>

\* whatsapp/services.py 94-122: Message.objects.get_or_create(conversation,
\* content, direction='OUT') after a delivery; any error of it is logged.
Track(ms, c, mid) ==
    LET same == {i \in DOMAIN ms : ms[i].direction = "OUT" /\ ms[i].content = c}
    IN  IF same = {} THEN Append(ms, Row("OUT", c, TRUE, 0, mid)) ELSE ms

\* The sender's exception is not caught.
SendUncaught(t) ==
    /\ tasks[t].pc = "send"
    /\ \E delivered \in BOOLEAN :
         LET r == tasks[t]
         IN  /\ Set(t, [r EXCEPT !.sendFailed = ~delivered,
                                 !.pc = IF delivered THEN "touch" ELSE "inner"])
             /\ msgs' = IF delivered /\ storeUp
                        THEN Track(msgs, _format_for_whatsapp(r.response), r.mid)
                        ELSE msgs
    /\ UNCHANGED <<qaRows, storeUp>>

\* tasks.py 84-103: WhatsAppService.send_message inside try/except Exception
Send(t) ==
    /\ tasks[t].pc = "send"
    /\ \E delivered \in BOOLEAN :
         LET r == tasks[t]
         IN  /\ Set(t, [r EXCEPT !.sendFailed = ~delivered, !.pc = "touch"])
             /\ msgs' = IF delivered /\ storeUp
                        THEN Track(msgs, _format_for_whatsapp(r.response), r.mid)
                        ELSE msgs
    /\ UNCHANGED <<qaRows, storeUp>>

\* tasks.py 105-110: conversation.save(update_fields=['updated_at']); return
Touch(t) ==
    /\ tasks[t].pc = "touch"
    /\ IF ~storeUp
       THEN Set(t, [tasks[t] EXCEPT !.pc = "inner"])
       ELSE Set(t, Finish(tasks[t], "SUCCESS"))
    /\ UNCHANGED <<msgs, qaRows, storeUp>>

\* tasks.py 112-119: except Exception: the placeholder gets the friendly
\* error; raise
Inner(t) ==
    /\ tasks[t].pc = "inner"
    /\ LET r == tasks[t]
       IN  /\ Set(t, [r EXCEPT !.pc = "handler"])
           /\ IF storeUp /\ r.placeholder # 0
              THEN msgs' = SavePlaceholder(msgs, r.placeholder, FRIENDLY_ERROR, r.mid)
              ELSE UNCHANGED msgs
    /\ UNCHANGED <<qaRows, storeUp>>

\* tasks.py 125-145: except Exception: the latest placeholder of the
\* conversation gets the final error, whatever that write raises is logged;
\* raise self.retry(countdown=2 ** self.request.retries)
Handler(t) ==
    /\ tasks[t].pc = "handler"
    /\ LET r == tasks[t]
           p == LatestPlaceholder(msgs)
       IN  /\ Set(t, Retry([r EXCEPT !.swallowed = ~storeUp]))
           /\ IF storeUp /\ r.mid \in Ids /\ p # 0
              THEN msgs' = SavePlaceholder(msgs, p, FINAL_ERROR, r.mid)
              ELSE UNCHANGED msgs
    /\ UNCHANGED <<qaRows, storeUp>>

\* A run for a web message while every operation succeeds.
Run(t, pool) ==
    \/ Load(t, pool)
    \/ Select(t)
    \/ Pipeline(t)
    \/ Write(t)
    \/ Touch(t)

\* A run for a message of any channel.
Step(t, pool) ==
    \/ Run(t, pool)
    \/ Send(t)

\* What a run does after an operation raised.
Recover(t) ==
    \/ PipelineCut(t)
    \/ Report(t)
    \/ Inner(t)
    \/ Handler(t)

\* --------------------------------------------------------------- web views
\* chat.views.send_message (form) and send_chat_message (JSON) for a delegate
\* who is logged in and has accepted the terms.  One request is one step.
MaxConvs == 2

Delegates == {"d1", "d2"}

\* Texts a client can post: nothing, blanks, a text, a text between blanks.
PostedTexts == {"", "   ", "faq", " faq "}

\* str.strip()
strip(text) ==
    CASE text = "   " -> ""
      [] text = " faq " -> "faq"
      [] OTHER -> text

Request(view, delegate, conversation_id, message) ==
    [view |-> view, delegate |-> delegate, conversation_id |-> conversation_id,
     message |-> message]

\* reply is the last response, with the request it answers.
JsonResponse(request, status, error) ==
    [request |-> request, status |-> status, error |-> error]

NoReply == JsonResponse(Request("", "", 0, ""), 0, "")

Conversation(client_phone, delegate) ==
    [client_phone |-> client_phone, delegate |-> delegate, is_active |-> TRUE]

ConversationIds == DOMAIN conversations

\* client_phone=f"delegado_{delegate.code}"
DelegatePhone(delegate) == <<"delegado", delegate>>

\* handle_incoming_message, process_message.delay(user_message.id, source),
\* the success response
Accept(request, content, source) ==
    /\ msgs' = handle_incoming_message(msgs, content)
    /\ tasks' = Append(tasks, NewTask(Len(msgs) + 1, source))
    /\ reply' = JsonResponse(request, 200, "")

Reject(request, status, error) ==
    /\ reply' = JsonResponse(request, status, error)
    /\ UNCHANGED <<msgs, tasks, conversations>>

Room == NumInbound < MaxIn /\ Len(tasks) < MaxTasks

\* views.py 223-286
send_message(delegate, conversation_id, message) ==
    LET message_content == strip(message)
        request == Request("send_message", delegate, conversation_id, message)
    IN  /\ Room
        /\ IF message_content = ""
           THEN Reject(request, 400, "El mensaje no puede estar vacio.")
           ELSE IF /\ conversation_id \in ConversationIds
                   /\ conversations[conversation_id].delegate = delegate
           THEN Accept(request, message_content, "web") /\ UNCHANGED conversations
           ELSE IF conversation_id \in ConversationIds
           THEN Reject(request, 403, "No tienes permiso para acceder a esta conversacion.")
           ELSE IF ~agentActive
           THEN Reject(request, 400, "No hay agentes disponibles en este momento.")
           ELSE /\ Len(conversations) < MaxConvs
                /\ conversations' =
                      Append(conversations, Conversation(DelegatePhone(delegate), delegate))
                /\ Accept(request, message_content, "web")
        /\ UNCHANGED <<qaRows, storeUp, agentActive, wa, back>>

\* The conversation is created without looking for an agent.
send_chat_message_any_agent(delegate, conversation_id, user_message) ==
    LET request == Request("send_chat_message", delegate, conversation_id, user_message)
    IN
    /\ Room
    /\ IF user_message = ""
       THEN Reject(request, 400, "El mensaje es requerido")
       ELSE IF /\ conversation_id \in ConversationIds
               /\ conversations[conversation_id].delegate = delegate
       THEN Accept(request, user_message, "web_api") /\ UNCHANGED conversations
       ELSE /\ Len(conversations) < MaxConvs
            /\ conversations' =
                  Append(conversations, Conversation(DelegatePhone(delegate), delegate))
            /\ Accept(request, user_message, "web_api")
    /\ UNCHANGED <<qaRows, storeUp, agentActive, wa, back>>

\* views.py 318-408
send_chat_message(delegate, conversation_id, user_message) ==
    LET request == Request("send_chat_message", delegate, conversation_id, user_message)
    IN
    /\ Room
    /\ IF user_message = ""
       THEN Reject(request, 400, "El mensaje es requerido")
       ELSE IF /\ conversation_id \in ConversationIds
               /\ conversations[conversation_id].delegate = delegate
       THEN Accept(request, user_message, "web_api") /\ UNCHANGED conversations
       ELSE IF ~agentActive
       THEN Reject(request, 400, "No hay agentes disponibles")
       ELSE /\ Len(conversations) < MaxConvs
            /\ conversations' =
                  Append(conversations, Conversation(DelegatePhone(delegate), delegate))
            /\ Accept(request, user_message, "web_api")
    /\ UNCHANGED <<qaRows, storeUp, agentActive, wa, back>>

\* An administrator activates or deactivates the only AgentProfile.
AgentSwitch ==
    /\ agentActive' = ~agentActive
    /\ UNCHANGED <<vars, conversations, reply, wa, back>>

\* ---------------------------------------------------------- WhatsApp webhook
\* whatsapp.views.webhook_handler queues one handle_whatsapp_message per
\* message of the payload; the provider may deliver a payload again.  No key
\* expires here: everything happens within the 300 s of the first cache.add.
MaxDeliveries == 2

MessageSids == {"wamid.1", "wamid.2"}

Sender == "+34600111222"

HandlerIds == DOMAIN handlers

\* views.py 133-139: handle_whatsapp_message.delay({...})
Deliver(sid, content) ==
    /\ Len(handlers) < MaxDeliveries
    /\ handlers' = Append(handlers, [id |-> sid, content |-> content, pc |-> "queued",
                                      conversation |-> 0, retries |-> 0, persisted |-> 0])
    /\ UNCHANGED <<vars, conversations, agentActive, reply, locks, tracked, back>>

SetHandler(h, pc) == handlers' = [handlers EXCEPT ![h].pc = pc]

\* The handler has persisted one more IN row with its placeholder.
SetPersisted(h, pc) == handlers' = [handlers EXCEPT ![h].pc = pc, ![h].persisted = @ + 1]

\* tasks.py 29-33: cache.add(lock_id, 'true', timeout=300), return if the
\* key is there
Acquire(h) ==
    /\ handlers[h].pc = "queued"
    /\ IF handlers[h].id \in locks
       THEN SetHandler(h, "skipped") /\ UNCHANGED locks
       ELSE SetHandler(h, "find") /\ locks' = locks \cup {handlers[h].id}
    /\ UNCHANGED <<vars, conversations, agentActive, reply, tracked, back>>

ActiveFor(client_phone) ==
    {c \in ConversationIds :
        conversations[c].is_active /\ conversations[c].client_phone = client_phone}

\* services.py 190: Conversation.objects.filter(client_phone, is_active=True).first()
Find(h) ==
    /\ handlers[h].pc = "find"
    /\ handlers' = [handlers EXCEPT
            ![h].pc = "persist",
            ![h].conversation = IF ActiveFor(Sender) = {} THEN 0 ELSE Max(ActiveFor(Sender))]
    /\ UNCHANGED <<vars, conversations, agentActive, reply, locks, tracked, back>>

\* services.py 192-232 and tasks.py 43-49: the conversation is created if
\* none was found (ValueError without an agent), the message and its
\* placeholder are persisted, the tracking row is written, and
\* process_message.delay is called by the service and again by the task.
Persist(h) ==
    /\ handlers[h].pc = "persist"
    /\ NumInbound < MaxIn
    /\ IF handlers[h].conversation = 0 /\ ~agentActive
       THEN /\ SetHandler(h, "failed")
            /\ UNCHANGED <<msgs, tasks, conversations, tracked>>
       ELSE /\ SetPersisted(h, "release")
            /\ conversations' =
                  IF handlers[h].conversation = 0
                  THEN Append(conversations, Conversation(Sender, "")) ELSE conversations
            /\ msgs' = handle_incoming_message(msgs, handlers[h].content)
            /\ tracked' = Append(tracked, [message |-> Len(msgs) + 1,
                                            whatsapp_message_id |-> handlers[h].id])
            /\ tasks' = tasks \o << NewTask(Len(msgs) + 1, "whatsapp"),
                                    NewTask(Len(msgs) + 1, "whatsapp") >>
    /\ UNCHANGED <<qaRows, storeUp, agentActive, reply, locks, back>>

\* services.py 208-232: an exception after ChatProcessor.handle_incoming_message
\* has returned (WhatsAppMessage.objects.create, WhatsAppLog.objects.create or
\* process_message.delay raises): the rows stay, nothing is enqueued.
PersistInterrupted(h) ==
    /\ handlers[h].pc = "persist"
    /\ NumInbound < MaxIn
    /\ handlers[h].conversation # 0 \/ agentActive
    /\ SetPersisted(h, "failed")
    /\ conversations' =
          IF handlers[h].conversation = 0
          THEN Append(conversations, Conversation(Sender, "")) ELSE conversations
    /\ msgs' = handle_incoming_message(msgs, handlers[h].content)
    /\ UNCHANGED <<qaRows, storeUp, tasks, agentActive, reply, locks, tracked, back>>

\* tasks.py 51-52 and 54-66: finally: cache.delete(lock_id); after an
\* exception self.retry(exc=e) until max_retries
Release(h) ==
    /\ handlers[h].pc \in {"release", "failed"}
    /\ locks' = locks \ {handlers[h].id}
    /\ handlers' = [handlers EXCEPT
            ![h].pc = IF handlers[h].pc = "release" THEN "done"
                      ELSE IF handlers[h].retries < max_retries THEN "queued"
                      ELSE "FAILURE",
            ![h].retries = IF handlers[h].pc = "failed" /\ @ < max_retries
                           THEN @ + 1 ELSE @,
            ![h].conversation = 0]
    /\ UNCHANGED <<vars, conversations, agentActive, reply, tracked, back>>

handle_whatsapp_message(h) ==
    \/ Acquire(h)
    \/ Find(h)
    \/ Persist(h)
    \/ PersistInterrupted(h)
    \/ Release(h)

\* ------------------------------------------------------------------ QAService
\* Here a text is a sequence of characters.
MaxLen == 4

MaxQuestions == 2

Chars == {"a", "b", "A", " "}

Strings(n) == UNION {[1 .. k -> Chars] : k \in 0 .. n}

\* str.lower()
LowerCase(c) ==
    CASE c = "A" -> "a"
      [] c = "Farmacia" -> "farmacia"
      [] c = "Centro" -> "centro"
      [] c = "Botica" -> "botica"
      [] c = "Sur" -> "sur"
      [] c = "Hola" -> "hola"
      [] OTHER -> c

lower(str) == [i \in DOMAIN str |-> LowerCase(str[i])]

\* str.strip()
RECURSIVE Strip(_)
Strip(str) ==
    IF str = << >> THEN str
    ELSE IF Head(str) = " " THEN Strip(Tail(str))
    ELSE IF str[Len(str)] = " " THEN Strip(SubSeq(str, 1, Len(str) - 1))
    ELSE str

\* str.split(sep) for a one-character separator: the pieces between them
RECURSIVE Split(_, _)
Split(str, sep) ==
    IF \A i \in DOMAIN str : str[i] # sep THEN << str >>
    ELSE LET i == CHOOSE k \in DOMAIN str :
                      str[k] = sep /\ \A j \in 1 .. k - 1 : str[j] # sep
         IN  << SubSeq(str, 1, i - 1) >> \o Split(SubSeq(str, i + 1, Len(str)), sep)

\* ' '.join(words)
RECURSIVE Join(_)
Join(words) ==
    IF words = << >> THEN << >>
    ELSE IF Len(words) = 1 THEN words[1]
    ELSE words[1] \o << " " >> \o Join(Tail(words))

\* services.py 808-810: ' '.join(text.lower().split())
_normalize_text(text) ==
    Join(SelectSeq(Split(lower(text), " "), LAMBDA w : w # << >>))

\* keyword in query
Contains(str, part) ==
    \E i \in 0 .. Len(str) - Len(part) : SubSeq(str, i + 1, i + Len(part)) = part

\* A score is the fraction <<numerator, denominator>>.
Score(n, d) == <<n, d>>

Zero == Score(0, 1)

Greater(x, y) == x[1] * y[2] > y[1] * x[2]

\* MATCH_THRESHOLD = 0.6
AtLeastThreshold(x) == 5 * x[1] >= 3 * x[2]

\* difflib.SequenceMatcher(None, a, b): the longest block a[i+1 .. i+k] =
\* b[j+1 .. j+k] inside the two windows, the earliest in a, then in b
Blocks(a, alo, ahi, b, blo, bhi) ==
    {<<i, j, k>> \in (alo .. ahi) \X (blo .. bhi) \X (1 .. ahi - alo) :
        /\ i + k <= ahi
        /\ j + k <= bhi
        /\ SubSeq(a, i + 1, i + k) = SubSeq(b, j + 1, j + k)}

find_longest_match(a, alo, ahi, b, blo, bhi) ==
    LET blocks == Blocks(a, alo, ahi, b, blo, bhi)
    IN  IF blocks = {} THEN <<alo, blo, 0>>
        ELSE CHOOSE x \in blocks : \A y \in blocks :
                \/ x[3] > y[3]
                \/ x[3] = y[3] /\ x[1] < y[1]
                \/ x[3] = y[3] /\ x[1] = y[1] /\ x[2] <= y[2]

\* get_matching_blocks: the number of matched characters
RECURSIVE Matches(_, _, _, _, _, _)
Matches(a, alo, ahi, b, blo, bhi) ==
    LET x == find_longest_match(a, alo, ahi, b, blo, bhi)
    IN  IF x[3] = 0 THEN 0
        ELSE x[3] + Matches(a, alo, x[1], b, blo, x[2])
                  + Matches(a, x[1] + x[3], ahi, b, x[2] + x[3], bhi)

\* ratio(): 2.0 * matches / (len(a) + len(b)), 1.0 for two empty texts
ratio(a, b) ==
    IF Len(a) + Len(b) = 0 THEN Score(1, 1)
    ELSE Score(2 * Matches(a, 0, Len(a), b, 0, Len(b)), Len(a) + Len(b))

Question(text, keywords, is_active, count) ==
    [text |-> text, keywords |-> keywords, is_active |-> is_active, answers |-> count]

\* Question.objects.filter(is_active=True), in table order
Active == {q \in DOMAIN questions : questions[q].is_active}

Match(question, score) == [question |-> question, confidence |-> score]

NoMatch == Match(0, Zero)

\* list.sort(key=lambda x: x[1], reverse=True)[0]: the first of the
\* entries with the highest score (the sort is stable)
Best(results) ==
    CHOOSE x \in results : \A y \in results :
        \/ Greater(x.confidence, y.confidence)
        \/ x.confidence = y.confidence /\ x.question <= y.question

\* services.py 812-833
KeywordScore(q, query) ==
    LET keywords == {lower(Strip(k)) : k \in Range(Split(questions[q].keywords, ","))}
        hits == {k \in keywords : Contains(query, k)}
    IN  IF questions[q].keywords = << >> \/ hits = {} THEN Zero
        ELSE LET k == CHOOSE k \in hits : \A j \in hits : Len(k) >= Len(j)
             IN  Score(Len(k), Len(query))

_match_by_keywords(query) ==
    {x \in {Match(q, KeywordScore(q, query)) : q \in Active} : x.confidence[1] > 0}

\* services.py 835-846
_match_by_similarity(query) ==
    LET similarity(q) == ratio(query, _normalize_text(questions[q].text))
    IN  {x \in {Match(q, similarity(q)) : q \in Active} : x.confidence[1] > 0}

\* The query is matched whatever its length.
find_matching_question_any_length(query) ==
    LET normal == _normalize_text(query)
        by_keywords == _match_by_keywords(normal)
        by_similarity == _match_by_similarity(normal)
    IN  IF normal # << >> /\ by_keywords # {}
            /\ AtLeastThreshold(Best(by_keywords).confidence)
        THEN Best(by_keywords)
        ELSE IF by_similarity # {} /\ AtLeastThreshold(Best(by_similarity).confidence)
        THEN Best(by_similarity)
        ELSE NoMatch

\* services.py 779-806
find_matching_question(query) ==
    IF Len(Strip(query)) < 3 THEN NoMatch
    ELSE LET normal == _normalize_text(query)
             by_keywords == _match_by_keywords(normal)
             by_similarity == _match_by_similarity(normal)
         IN  IF by_keywords # {} /\ AtLeastThreshold(Best(by_keywords).confidence)
             THEN Best(by_keywords)
             ELSE IF by_similarity # {} /\ AtLeastThreshold(Best(by_similarity).confidence)
             THEN Best(by_similarity)
             ELSE NoMatch

\* services.py 870-876 and 903-908: the dictionary process_query returns
Result(success, confidence, question_id) ==
    [success |-> success, confidence |-> confidence, question_id |-> question_id]

NoResult == Result(FALSE, Zero, 0)

\* services.py 848-860: whether the Question has an Answer to give
get_answer(question) == questions[question].answers > 0

\* A row is logged for every match that reaches the threshold.
QAInteraction_create_on_match(found) ==
    IF found.question = 0 \/ ~AtLeastThreshold(found.confidence) THEN 0 ELSE 1

\* services.py 878-900: the QAInteraction rows process_query creates
QAInteraction_create(found) ==
    IF found.question = 0 \/ ~AtLeastThreshold(found.confidence) THEN 0
    ELSE IF ~get_answer(found.question) THEN 0
    ELSE 1

\* services.py 862-910: the dictionary process_query returns
process_query(found) ==
    IF found.question = 0 \/ ~AtLeastThreshold(found.confidence)
    THEN Result(FALSE, found.confidence, 0)
    ELSE IF ~get_answer(found.question)
    THEN Result(FALSE, found.confidence, 0)
    ELSE Result(TRUE, found.confidence, found.question)

Asked == user_query # << >> \/ qa_match # NoMatch \/ qa_result # NoResult \/ qa_logged # 0

Ask(query) ==
    /\ questions # << >>
    /\ ~Asked
    /\ user_query' = query
    /\ qa_match' = find_matching_question(query)
    /\ qa_result' = process_query(qa_match')
    /\ qa_logged' = QAInteraction_create(qa_match')
    /\ UNCHANGED <<vars, conversations, agentActive, reply, wa, qna, dlg, questions>>

\* ---------------------------------------------------------- QuestionViewSet
MaxCalls == 3

QuestionIds == {1, 2}

PostedAnswers == {"", "respuesta"}

Answer(question, text, is_default) ==
    [question |-> question, text |-> text, is_default |-> is_default]

\* One add_answer request: where it stands, and its pk, text and is_default
Adder(pc, pk, text, is_default) ==
    [pc |-> pc, pk |-> pk, text |-> text, is_default |-> is_default]

\* views.py 938-944: the request is read; 400 without a text
add_answer(pk, text, is_default) ==
    /\ Len(adders) < MaxCalls
    /\ adders' = Append(adders,
          Adder(IF text = "" THEN "400" ELSE IF is_default THEN "clear" ELSE "create",
                pk, text, is_default))
    /\ UNCHANGED <<vars, conversations, agentActive, reply, wa, qa, dlg, answers>>

\* question.answers.filter(is_default=True).update(is_default=False)
ClearDefault(pk) ==
    [i \in DOMAIN answers |->
        IF answers[i].question = pk THEN [answers[i] EXCEPT !.is_default = FALSE]
        ELSE answers[i]]

\* views.py 946-948
Clear(a) ==
    /\ adders[a].pc = "clear"
    /\ answers' = ClearDefault(adders[a].pk)
    /\ adders' = [adders EXCEPT ![a].pc = "create"]
    /\ UNCHANGED <<vars, conversations, agentActive, reply, wa, qa, dlg>>

\* views.py 950-960
Create(a) ==
    /\ adders[a].pc = "create"
    /\ answers' = Append(answers, Answer(adders[a].pk, adders[a].text, adders[a].is_default))
    /\ adders' = [adders EXCEPT ![a].pc = "200"]
    /\ UNCHANGED <<vars, conversations, agentActive, reply, wa, qa, dlg>>

\* ------------------------------------------------------ SmartResponseEngine
\* Here a text is a sequence of tokens: words, digits and punctuation marks.
\* A JSON value carries its type in t.
JStr(text) == [t |-> "str", v |-> text]

JInt(n) == [t |-> "int", v |-> n]

JNull == [t |-> "null"]

JBool(b) == [t |-> "bool", v |-> b]

JList(items) == [t |-> "list", v |-> items]

\* the items are <<key, value>> pairs, in insertion order
JDict(items) == [t |-> "dict", v |-> items]

Digits == <<"1", "2", "3", "4", "5", "6", "7", "8", "9">>

\* str(n) and int(text) for the numbers that occur
ToStr(n) == IF n = 0 THEN "0" ELSE Digits[n]

IsDigit(token) == token = "0" \/ \E n \in DOMAIN Digits : Digits[n] = token

ToInt(token) == IF token = "0" THEN 0 ELSE CHOOSE n \in DOMAIN Digits : Digits[n] = token

RECURSIVE Concat(_)
Concat(parts) == IF parts = << >> THEN << >> ELSE Head(parts) \o Concat(Tail(parts))

\* sep.join(parts)
RECURSIVE JoinWith(_, _)
JoinWith(parts, sep) ==
    IF parts = << >> THEN << >>
    ELSE IF Len(parts) = 1 THEN parts[1]
    ELSE parts[1] \o sep \o JoinWith(Tail(parts), sep)

\* json.dumps of a string: quotes and backslashes are escaped, and so is
\* what is not ASCII (ensure_ascii)
Escape(token) ==
    CASE token = "\"" -> <<"\\", "\"">>
      [] token = "\\" -> <<"\\", "\\">>
      [] token = "ñ" -> <<"\\", "u00f1">>
      [] OTHER -> <<token>>

DumpString(text) ==
    <<"\"">> \o Concat([i \in DOMAIN text |-> Escape(text[i])]) \o <<"\"">>

\* json.dumps(value), with the default separators ', ' and ': '
RECURSIVE dumps(_)
dumps(value) ==
    CASE value.t = "str" -> DumpString(value.v)
      [] value.t = "int" -> <<ToStr(value.v)>>
      [] value.t = "null" -> <<"null">>
      [] value.t = "bool" -> IF value.v THEN <<"true">> ELSE <<"false">>
      [] value.t = "list" ->
            <<"[">> \o JoinWith([i \in DOMAIN value.v |-> dumps(value.v[i])], <<",", " ">>)
                  \o <<"]">>
      [] value.t = "dict" ->
            <<"{">> \o JoinWith([i \in DOMAIN value.v |->
                                   DumpString(value.v[i][1]) \o <<":", " ">>
                                       \o dumps(value.v[i][2])],
                               <<",", " ">>)
                  \o <<"}">>

\* What the decoder has made of the tokens up to next; ok is FALSE for
\* json.JSONDecodeError.
Parsed(value, next) == [ok |-> TRUE, value |-> value, next |-> next]

ParseError == [ok |-> FALSE, value |-> JNull, next |-> 0]

\* whitespace between JSON tokens is skipped
RECURSIVE SkipSpace(_, _)
SkipSpace(tokens, pos) ==
    IF pos <= Len(tokens) /\ tokens[pos] = " " THEN SkipSpace(tokens, pos + 1) ELSE pos

\* the text of a JSON string whose opening quote is before pos
RECURSIVE ParseString(_, _, _)
ParseString(tokens, pos, text) ==
    IF pos > Len(tokens) THEN ParseError
    ELSE IF tokens[pos] = "\"" THEN Parsed(JStr(text), pos + 1)
    ELSE IF tokens[pos] = "\\"
    THEN IF pos + 1 > Len(tokens) THEN ParseError
         ELSE IF tokens[pos + 1] \in {"\"", "\\"}
         THEN ParseString(tokens, pos + 2, Append(text, tokens[pos + 1]))
         ELSE IF tokens[pos + 1] = "u00f1"
         THEN ParseString(tokens, pos + 2, Append(text, "ñ"))
         ELSE ParseError
    ELSE ParseString(tokens, pos + 1, Append(text, tokens[pos]))

RECURSIVE ParseValue(_, _)
RECURSIVE ParseItems(_, _, _)
RECURSIVE ParseMembers(_, _, _)

\* after an item: the closing bracket, or a comma and the next item
ItemsNext(tokens, after, found) ==
    IF after > Len(tokens) THEN ParseError
    ELSE IF tokens[after] = "]" THEN Parsed(JList(found), after + 1)
    ELSE IF tokens[after] = "," THEN ParseItems(tokens, after + 1, found)
    ELSE ParseError

ItemsAfter(tokens, item, items) ==
    IF ~item.ok THEN ParseError
    ELSE ItemsNext(tokens, SkipSpace(tokens, item.next), Append(items, item.value))

\* the items of a JSON array after the opening bracket or a comma
ParseItems(tokens, pos, items) == ItemsAfter(tokens, ParseValue(tokens, pos), items)

\* after a member: the closing brace, or a comma and the next member
MembersNext(tokens, after, found) ==
    IF after > Len(tokens) THEN ParseError
    ELSE IF tokens[after] = "}" THEN Parsed(JDict(found), after + 1)
    ELSE IF tokens[after] = "," THEN ParseMembers(tokens, after + 1, found)
    ELSE ParseError

MembersAfter(tokens, name, member, items) ==
    IF ~member.ok THEN ParseError
    ELSE MembersNext(tokens, SkipSpace(tokens, member.next),
                     Append(items, <<name, member.value>>))

\* the colon and the value of a member
MembersValue(tokens, name, colon, items) ==
    IF colon <= Len(tokens) /\ tokens[colon] = ":"
    THEN MembersAfter(tokens, name, ParseValue(tokens, colon + 1), items)
    ELSE ParseError

MembersColon(tokens, key, items) ==
    IF ~key.ok THEN ParseError
    ELSE MembersValue(tokens, key.value.v, SkipSpace(tokens, key.next), items)

\* the key of a member: a string
MembersKey(tokens, start, items) ==
    IF start <= Len(tokens) /\ tokens[start] = "\""
    THEN MembersColon(tokens, ParseString(tokens, start + 1, << >>), items)
    ELSE ParseError

\* the members of a JSON object after the opening brace or a comma
ParseMembers(tokens, pos, items) == MembersKey(tokens, SkipSpace(tokens, pos), items)

\* an array: empty, or its items
ListAt(tokens, start, close) ==
    IF close <= Len(tokens) /\ tokens[close] = "]"
    THEN Parsed(JList(<< >>), close + 1)
    ELSE ParseItems(tokens, start + 1, << >>)

\* an object: empty, or its members
DictAt(tokens, start, close) ==
    IF close <= Len(tokens) /\ tokens[close] = "}"
    THEN Parsed(JDict(<< >>), close + 1)
    ELSE ParseMembers(tokens, start + 1, << >>)

Scalar(token, start) ==
    CASE token = "null" -> Parsed(JNull, start + 1)
      [] token = "true" -> Parsed(JBool(TRUE), start + 1)
      [] token = "false" -> Parsed(JBool(FALSE), start + 1)
      [] IsDigit(token) -> Parsed(JInt(ToInt(token)), start + 1)
      [] OTHER -> ParseError

ValueAt(tokens, start) ==
    IF start > Len(tokens) THEN ParseError
    ELSE CASE tokens[start] = "\"" -> ParseString(tokens, start + 1, << >>)
           [] tokens[start] = "[" -> ListAt(tokens, start, SkipSpace(tokens, start + 1))
           [] tokens[start] = "{" -> DictAt(tokens, start, SkipSpace(tokens, start + 1))
           [] OTHER -> Scalar(tokens[start], start)

ParseValue(tokens, pos) == ValueAt(tokens, SkipSpace(tokens, pos))

Whole(tokens, parsed) ==
    IF parsed.ok /\ SkipSpace(tokens, parsed.next) = Len(tokens) + 1
    THEN parsed
    ELSE ParseError

\* json.loads(tokens): one value and nothing after it
loads(tokens) == Whole(tokens, ParseValue(tokens, 1))

\* The characters of a token.
Spell(token) ==
    CASE token = "hola" -> <<"h", "o", "l", "a">>
      [] token = "Hola" -> <<"H", "o", "l", "a">>
      [] token = "farmacia" -> <<"f", "a", "r", "m", "a", "c", "i", "a">>
      [] token = "Farmacia" -> <<"F", "a", "r", "m", "a", "c", "i", "a">>
      [] token = "farmacias" -> <<"f", "a", "r", "m", "a", "c", "i", "a", "s">>
      [] token = "centro" -> <<"c", "e", "n", "t", "r", "o">>
      [] token = "Centro" -> <<"C", "e", "n", "t", "r", "o">>
      [] token = "botica" -> <<"b", "o", "t", "i", "c", "a">>
      [] token = "Botica" -> <<"B", "o", "t", "i", "c", "a">>
      [] token = "sur" -> <<"s", "u", "r">>
      [] token = "Sur" -> <<"S", "u", "r">>
      [] token = "ab" -> <<"a", "b">>
      [] token = "ayuda" -> <<"a", "y", "u", "d", "a">>
      [] token = "buscar" -> <<"b", "u", "s", "c", "a", "r">>
      [] token = "texto" -> <<"t", "e", "x", "t", "o">>
      [] token = "visita" -> <<"v", "i", "s", "i", "t", "a">>
      [] token = "si" -> <<"s", "i">>
      [] token = "no" -> <<"n", "o">>
      [] token = "bien" -> <<"b", "i", "e", "n">>
      [] token = "__STATE__" -> <<"_", "_", "S", "T", "A", "T", "E", "_", "_">>
      [] token = "initial" -> <<"i", "n", "i", "t", "i", "a", "l">>
      [] OTHER -> <<token>>

\* the text as characters, and len(text)
Characters(text) == Concat([i \in DOMAIN text |-> Spell(text[i])])

CharLen(text) == Len(Characters(text))

\* SESSION_STATES
INITIAL == <<"initial">>

AWAITING_PHARMACY == <<"awaiting_pharmacy">>

PHARMACY_SELECTED == <<"pharmacy_selected">>

AWAITING_VISIT_ACTION == <<"awaiting_visit_action">>

COLLECTING_FEEDBACK == <<"collecting_feedback">>

READY_FOR_REPORT == <<"ready_for_report">>

STATE_PREFIX == <<"__STATE__", ":">>

DATA_PREFIX == <<"__DATA__", ":">>

\* A Message row of the conversation.
ChatRow(content, direction, ai_processed) ==
    [content |-> content, direction |-> direction, ai_processed |-> ai_processed]

\* content__startswith=prefix
StartsWith(text, prefix) ==
    Len(text) >= Len(prefix) /\ SubSeq(text, 1, Len(prefix)) = prefix

\* .order_by('-timestamp').first(): the index of the row, 0 for None
LatestWith(log, prefix) ==
    LET found == {i \in DOMAIN log : StartsWith(log[i].content, prefix)}
    IN  IF found = {} THEN 0 ELSE Max(found)

\* content.split(":", 1)[1].strip()
Payload(content) ==
    LET colon == CHOOSE i \in DOMAIN content :
                     content[i] = ":" /\ \A j \in 1 .. i - 1 : content[j] # ":"
    IN  Strip(SubSeq(content, colon + 1, Len(content)))

\* services.py 177-191
_get_session_state(log) ==
    IF LatestWith(log, STATE_PREFIX) = 0 THEN INITIAL
    ELSE Payload(log[LatestWith(log, STATE_PREFIX)].content)

\* services.py 193-209
_get_session_data(log) ==
    IF LatestWith(log, DATA_PREFIX) = 0 THEN JDict(<< >>)
    ELSE LET decoded == loads(Payload(log[LatestWith(log, DATA_PREFIX)].content))
         IN  IF decoded.ok THEN decoded.value ELSE JDict(<< >>)

\* services.py 211-219: the row _save_session_state creates
_save_session_state(state) == ChatRow(STATE_PREFIX \o state, "OUT", TRUE)

\* The keys are left out of the saved text.
_save_session_data_without_keys(data) ==
    ChatRow(DATA_PREFIX \o dumps(JList([i \in DOMAIN data.v |-> data.v[i][2]])), "OUT", TRUE)

\* services.py 221-230: the row _save_session_data creates
_save_session_data(data) == ChatRow(DATA_PREFIX \o dumps(data), "OUT", TRUE)

\* key in data, data[key] and {**data, key: value}
Has(data, key) == data.t = "dict" /\ \E i \in DOMAIN data.v : data.v[i][1] = key

Get(data, key) ==
    IF Has(data, key)
    THEN data.v[CHOOSE i \in DOMAIN data.v : data.v[i][1] = key][2]
    ELSE JNull

With(data, key, value) ==
    IF Has(data, key)
    THEN JDict([i \in DOMAIN data.v |->
                  IF data.v[i][1] = key THEN <<key, value>> ELSE data.v[i]])
    ELSE JDict(Append(data.v, <<key, value>>))

\* INTENT_PATTERNS, in the order of the dictionary
Intents == <<"greeting", "pharmacy_search", "visit_info", "feedback", "report", "help">>

IntentWords(intent) ==
    CASE intent = "greeting" ->
            {<<"hola">>, <<"buenos", " ", "días">>, <<"buenas", " ", "tardes">>,
             <<"saludos">>, <<"hey">>}
      [] intent = "pharmacy_search" ->
            {<<"farmacia">>, <<"farmacias">>, <<"botica">>, <<"droguería">>}
      [] intent = "visit_info" -> {<<"visita">>, <<"visitar">>, <<"visitando">>, <<"visitado">>}
      [] intent = "feedback" ->
            {<<"feedback">>, <<"comentario">>, <<"opinión">>, <<"valoración">>,
             <<"retroalimentación">>}
      [] intent = "report" -> {<<"informe">>, <<"reporte">>, <<"resumen">>}
      [] intent = "help" ->
            {<<"ayuda">>, <<"ayúdame">>, <<"como">>, <<"cómo">>, <<"instrucciones">>,
             <<"opciones">>}

\* services.py 232-240
_detect_intent(message) ==
    LET found == {i \in DOMAIN Intents :
                    \E words \in IntentWords(Intents[i]) : Contains(lower(message), words)}
    IN  IF found = {} THEN "unknown"
        ELSE Intents[CHOOSE i \in found : \A j \in found : i <= j]

NoDate == << >>

\* A Pharmacy row; last_visit is NoDate for None.
Pharmacy(id, name, address, last_visit) ==
    [id |-> id, name |-> name, address |-> address, last_visit |-> last_visit]

SIN_VISITAS == <<"Sin visitas previas">>

\* text.replace('farmacia', '')
RECURSIVE WithoutFarmacia(_)
WithoutFarmacia(text) ==
    IF text = << >> THEN << >>
    ELSE IF Head(text) = "farmacia" THEN WithoutFarmacia(Tail(text))
    ELSE IF Head(text) = "farmacias" THEN <<"s">> \o WithoutFarmacia(Tail(text))
    ELSE <<Head(text)>> \o WithoutFarmacia(Tail(text))

\* queryset[:n]
FirstN(rows, n) == SubSeq(rows, 1, IF Len(rows) < n THEN Len(rows) ELSE n)

\* Q(name__icontains=terms) | Q(address__icontains=terms)
Matching(terms) ==
    SelectSeq(pharmacies,
              LAMBDA row : \/ Contains(lower(row.name), lower(terms))
                           \/ Contains(lower(row.address), lower(terms)))

PharmacyEntry(row) ==
    JDict(<< <<<<"id">>, JInt(row.id)>>,
             <<<<"name">>, JStr(row.name)>>,
             <<<<"address">>, JStr(row.address)>>,
             <<<<"last_visit">>,
               JStr(IF row.last_visit = NoDate THEN SIN_VISITAS ELSE row.last_visit)>> >>)

\* All the matching pharmacies are returned.
_search_pharmacy_all(message) ==
    LET terms == Strip(WithoutFarmacia(lower(message)))
        found == Matching(terms)
    IN  IF CharLen(terms) < 3 THEN << >>
        ELSE [i \in DOMAIN found |-> PharmacyEntry(found[i])]

\* services.py 242-259
_search_pharmacy(message) ==
    LET terms == Strip(WithoutFarmacia(lower(message)))
        found == FirstN(Matching(terms), 5)
    IN  IF CharLen(terms) < 3 THEN << >>
        ELSE [i \in DOMAIN found |-> PharmacyEntry(found[i])]

\* A Visit row; the latest is the last. The rows of a Pharmacy go with it
\* (on_delete=CASCADE): they stay here and count no longer.
Visit(id, pharmacy, delegate, status) ==
    [id |-> id, pharmacy |-> pharmacy, delegate |-> delegate, status |-> status]

NoDelegate == ""

\* visit_date.strftime('%d/%m/%Y'), one day for all
VISIT_DATE == <<"07", "/", "03", "/", "2025">>

get_status_display(status) ==
    CASE status = "PENDING" -> <<"Pendiente">>
      [] status = "COMPLETED" -> <<"Completada">>
      [] OTHER -> <<"Cancelada">>

Exists(pharmacy_id) == \E i \in DOMAIN pharmacies : pharmacies[i].id = pharmacy_id

\* Visit.objects.filter(pharmacy=, delegate=).order_by('-visit_date').first()
LastVisit(pharmacy_id) ==
    LET found == {i \in DOMAIN visits :
                    /\ visits[i].pharmacy = pharmacy_id
                    /\ Exists(pharmacy_id)
                    /\ conv_delegate # NoDelegate
                    /\ visits[i].delegate = conv_delegate}
    IN  IF found = {} THEN 0 ELSE Max(found)

\* services.py 261-284; JNull for None
_get_pharmacy_details(pharmacy_id) ==
    IF ~Exists(pharmacy_id) THEN JNull
    ELSE LET row == pharmacies[CHOOSE i \in DOMAIN pharmacies : pharmacies[i].id = pharmacy_id]
             last_visit == LastVisit(pharmacy_id)
         IN  JDict(<< <<<<"id">>, JInt(row.id)>>,
                      <<<<"name">>, JStr(row.name)>>,
                      <<<<"address">>, JStr(row.address)>>,
                      <<<<"phone">>, JStr(<< >>)>>,
                      <<<<"email">>, JStr(<< >>)>>,
                      <<<<"last_visit_date">>,
                        IF last_visit = 0 THEN JNull ELSE JStr(VISIT_DATE)>>,
                      <<<<"last_visit_status">>,
                        IF last_visit = 0 THEN JNull
                        ELSE JStr(get_status_display(visits[last_visit].status))>>,
                      <<<<"last_visit_id">>,
                        IF last_visit = 0 THEN JNull ELSE JInt(visits[last_visit].id)>>,
                      <<<<"has_pending_visit">>,
                        JBool(last_visit # 0 /\ visits[last_visit].status = "PENDING")>> >>)

\* services.py 286-316: for a Pharmacy that exists the sliced queryset is
\* filtered again, which Django refuses with a TypeError
_get_visit_options(pharmacy_id) ==
    IF Exists(pharmacy_id) THEN [raises |-> TRUE, pharmacy_name |-> << >>, recent_visits |-> << >>]
    ELSE [raises |-> FALSE, pharmacy_name |-> <<"Desconocida">>, recent_visits |-> << >>]

\* DEFAULT_RESPONSES and the other fixed answers of the engine
UNKNOWN == <<"Lo siento, no he entendido completamente tu mensaje.">>

ENGINE_ERROR == <<"Lo siento, ha ocurrido un error procesando tu mensaje.">>

HELP == <<"Puedo ayudarte con lo siguiente:">>

Greeting(delegate) ==
    IF delegate # NoDelegate
    THEN <<"Hola ", delegate, ", ¿en qué puedo ayudarte hoy? Puedes buscar una farmacia">>
    ELSE <<"Hola, ¿en qué puedo ayudarte hoy? Por favor, identifícate para continuar.">>

NOT_FOUND == <<"No encontré farmacias con ese nombre o dirección.">>

VISIT_NEEDS_PHARMACY == <<"Para consultar información de visitas, primero necesito saber">>

FEEDBACK_NEEDS_PHARMACY == <<"Para dejar feedback de una visita, primero necesito saber">>

INVALID_SELECTION == <<"Por favor, selecciona un número válido de la lista de farmacias.">>

TOO_SHORT == <<"Por favor, proporciona al menos 3 caracteres para la búsqueda.">>

INVALID_OPTION == <<"Por favor selecciona una opción válida (1-4)">>

NO_PENDING_VISIT == <<"No hay visitas pendientes para dejar feedback.">>

SESSION_ERROR == <<"Ha ocurrido un error con la sesión. Por favor, comienza de nuevo.">>

WRITE_FEEDBACK == <<"Por favor, escribe tu feedback a continuación:">>

ATTACH_AUDIO == <<"Por favor, adjunta tu archivo de audio">>

THANKS == <<"¡Gracias por tu feedback!">>

VISIT_NOT_FOUND == <<"Lo siento, no se encontró la visita.">>

NO_REPORT == <<"Entiendo que no deseas generar un informe ahora.">>

USE_GPT == <<"__USE_GPT__">>

\* services.py 355-359 and 414-418: one numbered line for each pharmacy
Listing(found) ==
    <<"Encontré las siguientes farmacias:", "\n", "\n">>
        \o Concat([i \in DOMAIN found |->
                      <<ToStr(i), ". ">> \o Get(found[i], <<"name">>).v \o <<" - ">>
                          \o Get(found[i], <<"address">>).v \o <<"\n">>])
        \o <<"\n", "Por favor, responde con el número de la farmacia que te interesa">>

\* What a call of the engine does: its answer, the Message rows it creates
\* in order, the pharmacy it creates a Visit for (0 for none) and the
\* Feedback rows it creates.
Effect(response, rows, visit, feedback) ==
    [response |-> response, rows |-> rows, visit |-> visit, feedback |-> feedback]

Answer_only(response) == Effect(response, << >>, 0, 0)

\* str.isdigit() and int(str)
isdigit(text) == text # << >> /\ \A i \in DOMAIN text : IsDigit(text[i])

RECURSIVE IntOf(_)
IntOf(text) ==
    IF text = << >> THEN 0 ELSE 10 * IntOf(SubSeq(text, 1, Len(text) - 1)) + ToInt(text[Len(text)])

\* 'si' in text, and the like: the tokens with that run of characters
Affirms(text) ==
    \E i \in DOMAIN text :
        lower(text)[i] \in {"si", "sí", "generar", "continue", "ok", "visita"}

PharmacyList(found) == JDict(<< <<<<"pharmacies">>, JList(found)>> >>)

\* services.py 344-370: state INITIAL
Initial(message_text, intent) ==
    CASE intent = "pharmacy_search" ->
            LET found == _search_pharmacy(message_text)
            IN  IF found # << >>
                THEN Effect(Listing(found),
                            <<_save_session_state(AWAITING_PHARMACY),
                              _save_session_data(PharmacyList(found))>>, 0, 0)
                ELSE Answer_only(NOT_FOUND)
      [] intent = "visit_info" -> Answer_only(VISIT_NEEDS_PHARMACY)
      [] intent = "feedback" -> Answer_only(FEEDBACK_NEEDS_PHARMACY)
      [] OTHER -> Answer_only(UNKNOWN)

\* services.py 387-401
Selected(pharmacy, pharmacy_details) ==
    <<"Has seleccionado: ">> \o Get(pharmacy, <<"name">>).v \o <<"\n", "Dirección: ">>
        \o Get(pharmacy, <<"address">>).v \o <<"\n">>
        \o (IF Get(pharmacy_details, <<"last_visit_date">>) # JNull
            THEN <<"Última visita: ">> \o Get(pharmacy_details, <<"last_visit_date">>).v
                     \o <<" - ">> \o Get(pharmacy_details, <<"last_visit_status">>).v
            ELSE <<"No hay visitas previas registradas.">>)
        \o <<"\n", "\n", "¿Qué deseas hacer?">>

\* services.py 373-423: state AWAITING_PHARMACY
AwaitingPharmacy(message_text, session_data) ==
    IF isdigit(message_text)
    THEN LET selection == IntOf(message_text)
             listed == Get(session_data, <<"pharmacies">>)
         IN  IF Has(session_data, <<"pharmacies">>) /\ 1 <= selection
                    /\ selection <= Len(listed.v)
             THEN LET pharmacy == listed.v[selection]
                      pharmacy_details == _get_pharmacy_details(Get(pharmacy, <<"id">>).v)
                      rows == <<_save_session_state(PHARMACY_SELECTED),
                                _save_session_data(
                                    JDict(<< <<<<"selected_pharmacy">>, pharmacy_details>> >>))>>
                  IN  IF pharmacy_details = JNull THEN Effect(ENGINE_ERROR, rows, 0, 0)
                      ELSE Effect(Selected(pharmacy, pharmacy_details), rows, 0, 0)
             ELSE Answer_only(INVALID_SELECTION)
    ELSE IF StartsWith(lower(message_text), <<"buscar">>)
    THEN LET search_term == Strip(Tail(message_text))
             found == _search_pharmacy(search_term)
         IN  IF CharLen(search_term) < 3 THEN Answer_only(TOO_SHORT)
             ELSE IF found # << >>
             THEN Effect(Listing(found), <<_save_session_data(PharmacyList(found))>>, 0, 0)
             ELSE Answer_only(NOT_FOUND)
    ELSE Answer_only(UNKNOWN)

\* Visit.objects.create(delegate=, pharmacy_id=, status='PENDING') is refused
\* without a delegate or without the Pharmacy
CanCreateVisit(pharmacy) ==
    /\ conv_delegate # NoDelegate
    /\ Has(pharmacy, <<"id">>)
    /\ Exists(Get(pharmacy, <<"id">>).v)

\* services.py 426-493: state PHARMACY_SELECTED
PharmacySelected(message_text, session_data) ==
    IF ~isdigit(message_text) THEN Answer_only(INVALID_OPTION)
    ELSE LET selection == IntOf(message_text)
             pharmacy == IF Has(session_data, <<"selected_pharmacy">>)
                         THEN Get(session_data, <<"selected_pharmacy">>)
                         ELSE JDict(<< >>)
             pending == Get(pharmacy, <<"has_pending_visit">>) = JBool(TRUE)
             options == _get_visit_options(Get(pharmacy, <<"id">>).v)
         IN  IF selection \notin 1 .. 4 THEN Answer_only(INVALID_OPTION)
             ELSE IF pharmacy = JNull THEN Answer_only(ENGINE_ERROR)
             ELSE CASE selection = 1 ->
                         IF pending
                         THEN Answer_only(<<"Ya tienes una visita pendiente para esta farmacia.",
                                            ToStr(Get(pharmacy, <<"last_visit_id">>).v)>>)
                         ELSE IF ~CanCreateVisit(pharmacy) THEN Answer_only(ENGINE_ERROR)
                         ELSE Effect(<<"He creado una nueva visita para la farmacia ">>
                                         \o Get(pharmacy, <<"name">>).v,
                                     <<_save_session_state(AWAITING_VISIT_ACTION),
                                       _save_session_data(
                                           JDict(<< <<<<"selected_pharmacy">>, pharmacy>>,
                                                    <<<<"current_visit_id">>,
                                                      JInt(Len(visits) + 1)>> >>))>>,
                                     Get(pharmacy, <<"id">>).v, 0)
                    [] selection = 3 ->
                         IF pending
                         THEN Effect(<<"Puedes dejar feedback para la visita pendiente.">>,
                                     <<_save_session_state(COLLECTING_FEEDBACK),
                                       _save_session_data(
                                           JDict(<< <<<<"selected_pharmacy">>, pharmacy>>,
                                                    <<<<"feedback_visit_id">>,
                                                      Get(pharmacy, <<"last_visit_id">>)>> >>))>>,
                                     0, 0)
                         ELSE Answer_only(NO_PENDING_VISIT)
                    [] OTHER ->
                         IF ~Has(pharmacy, <<"id">>) THEN Answer_only(INVALID_OPTION)
                         ELSE IF options.raises THEN Answer_only(ENGINE_ERROR)
                         ELSE IF selection = 2
                         THEN Answer_only(<<"No hay visitas registradas para ">>
                                              \o options.pharmacy_name)
                         ELSE Answer_only(<<"No hay suficientes datos de visitas">>)

\* services.py 496-534: state COLLECTING_FEEDBACK
CollectingFeedback(message_text, session_data) ==
    LET visit_id == Get(session_data, <<"feedback_visit_id">>)
        said(word) == \E i \in DOMAIN message_text : lower(message_text)[i] = word
        typed(kind) == With(session_data, <<"feedback_type">>, JStr(<<kind>>))
    IN  IF visit_id = JNull \/ visit_id = JInt(0)
        THEN Effect(SESSION_ERROR, <<_save_session_state(INITIAL)>>, 0, 0)
        ELSE IF said("texto")
        THEN Effect(WRITE_FEEDBACK, <<_save_session_data(typed("TEXT"))>>, 0, 0)
        ELSE IF said("audio")
        THEN Effect(ATTACH_AUDIO, <<_save_session_data(typed("AUDIO"))>>, 0, 0)
        ELSE IF Get(session_data, <<"feedback_type">>) = JStr(<<"TEXT">>)
        THEN IF \E i \in DOMAIN visits :
                    visits[i].id = visit_id.v /\ Exists(visits[i].pharmacy)
             THEN Effect(THANKS, <<_save_session_state(READY_FOR_REPORT)>>, 0, 1)
             ELSE Answer_only(VISIT_NOT_FOUND)
        ELSE Answer_only(UNKNOWN)

\* services.py 536-543: state READY_FOR_REPORT
ReadyForReport(message_text) ==
    IF Affirms(message_text) THEN Answer_only(USE_GPT) ELSE Answer_only(NO_REPORT)

\* The state of the session, and after it the dialogue of that state
Dialogue(message_text, intent, session_state, session_data) ==
    CASE session_state = INITIAL -> Initial(message_text, intent)
      [] session_state = AWAITING_PHARMACY -> AwaitingPharmacy(message_text, session_data)
      [] session_state = PHARMACY_SELECTED -> PharmacySelected(message_text, session_data)
      [] session_state = COLLECTING_FEEDBACK -> CollectingFeedback(message_text, session_data)
      [] session_state = READY_FOR_REPORT -> ReadyForReport(message_text)
      [] OTHER -> Answer_only(UNKNOWN)

\* Greetings and requests for help are answered before any search only.
SmartResponseEngine_process_message_greeting_when_initial(message_text, log) ==
    LET session_state == _get_session_state(log)
        session_data == _get_session_data(log)
        intent == _detect_intent(message_text)
    IN  CASE intent = "greeting" /\ session_state = INITIAL ->
                Answer_only(Greeting(conv_delegate))
          [] intent = "help" /\ session_state = INITIAL -> Answer_only(HELP)
          [] OTHER -> Dialogue(message_text, intent, session_state, session_data)

\* services.py 318-552: SmartResponseEngine(conversation).process_message
SmartResponseEngine_process_message(message_text, log) ==
    LET session_state == _get_session_state(log)
        session_data == _get_session_data(log)
        intent == _detect_intent(message_text)
    IN  CASE intent = "greeting" -> Answer_only(Greeting(conv_delegate))
          [] intent = "help" -> Answer_only(HELP)
          [] OTHER -> Dialogue(message_text, intent, session_state, session_data)

\* What ChatProcessor.process_message did with a message: the collaborators
\* it called in order, its answer, and the numbers of QAInteraction rows and
\* of session rows written.
TurnRecord(message, calls, response, interactions, written) ==
    [message |-> message, calls |-> calls, response |-> response,
     interactions |-> interactions, written |-> written]

NoTurn == TurnRecord(<< >>, << >>, << >>, 0, 0)

ANSWER_TEXT == <<"respuesta">>

\* The engine is left out: what QAService does not answer goes to ChatGPTService.
ChatProcessor_process_message_without_engine(content, log, raised) ==
    LET found == find_matching_question(Characters(content))
        qa_answer == process_query(found)
        turn(calls, response) ==
            TurnRecord(content, calls, response, QAInteraction_create(found), 0)
    IN  IF qa_answer.success
        THEN [turn |-> turn(<<"QAService">>, ANSWER_TEXT), engine |-> Answer_only(<< >>)]
        ELSE [turn |-> turn(<<"QAService", "ChatGPTService">>,
                            <<ChatGPTService_process_message(raised, Len(log), 0).k>>),
              engine |-> Answer_only(<< >>)]

\* services.py 616-694: QAService, then SmartResponseEngine, then ChatGPTService
ChatProcessor_process_message(content, log, raised) ==
    LET found == find_matching_question(Characters(content))
        qa_answer == process_query(found)
        engine == SmartResponseEngine_process_message(content, log)
        turn(calls, response, rows) ==
            TurnRecord(content, calls, response, QAInteraction_create(found), Len(rows))
    IN  IF qa_answer.success
        THEN [turn |-> turn(<<"QAService">>, ANSWER_TEXT, << >>),
              engine |-> Answer_only(<< >>)]
        ELSE IF engine.response # USE_GPT
        THEN [turn |-> turn(<<"QAService", "SmartResponseEngine">>, engine.response,
                            engine.rows),
              engine |-> engine]
        ELSE [turn |-> turn(<<"QAService", "SmartResponseEngine", "ChatGPTService">>,
                            <<ChatGPTService_process_message(raised, Len(log), 0).k>>,
                            engine.rows),
              engine |-> engine]

MaxTurns == 3

NumTurns == Cardinality({i \in DOMAIN chat_log : chat_log[i].direction = "IN"})

\* A message arrives (services.py 726-730) and is processed; its row is
\* marked ai_processed (services.py 635-637, 650-652, 685-687).
Process(content, raised) ==
    /\ LET done == ChatProcessor_process_message(
                       content, Append(chat_log, ChatRow(content, "IN", FALSE)), raised)
       IN  /\ chat_log' = Append(chat_log, ChatRow(content, "IN", TRUE)) \o done.engine.rows
           /\ visits' = IF done.engine.visit = 0 THEN visits
                         ELSE Append(visits, Visit(Len(visits) + 1, done.engine.visit,
                                                   conv_delegate, "PENDING"))
           /\ feedbacks' = feedbacks + done.engine.feedback
           /\ last_turn' = done.turn
    /\ UNCHANGED <<vars, conversations, agentActive, reply, wa, qa, qna, pharmacies,
                   conv_delegate>>

\* One of the few messages of a short conversation
Turn(content, raised) == NumTurns < MaxTurns /\ Process(content, raised)

MaxPharmacies == 6

\* A directory of k pharmacies of the centre and one of the south.
Directory(k) ==
    [i \in 1 .. k |->
        Pharmacy(i, <<"Farmacia", " ", "Centro", " ", ToStr(i)>>,
                 <<"Calle", " ", "Mayor", " ", ToStr(i)>>,
                 IF i = 1 THEN VISIT_DATE ELSE NoDate)]
        \o <<Pharmacy(k + 1, <<"Botica", " ", "Sur">>,
                      <<"Plaza", ":", " ", "\"", "Espa", "ñ", "a", "\"", " ", "\\", "1">>,
                      NoDate)>>

Untouched == chat_log = << >> /\ last_turn = NoTurn

\* The Pharmacy rows are entered before the conversation.
LoadDirectory(k) ==
    /\ Untouched
    /\ pharmacies = << >>
    /\ pharmacies' = Directory(k)
    /\ UNCHANGED <<vars, conversations, agentActive, reply, wa, qa, qna, visits, feedbacks,
                   conv_delegate, chat_log, last_turn>>

\* The conversation is one of a delegate.
Identify(name) ==
    /\ Untouched
    /\ pharmacies # << >>
    /\ conv_delegate = NoDelegate
    /\ conv_delegate' = name
    /\ UNCHANGED <<vars, conversations, agentActive, reply, wa, qa, qna, pharmacies, visits,
                   feedbacks, chat_log, last_turn>>

\* The delegate has a pending Visit to the first Pharmacy.
RegisterVisit ==
    /\ Untouched
    /\ pharmacies # << >>
    /\ conv_delegate # NoDelegate
    /\ visits = << >>
    /\ visits' = <<Visit(1, pharmacies[1].id, conv_delegate, "PENDING")>>
    /\ UNCHANGED <<vars, conversations, agentActive, reply, wa, qa, qna, pharmacies,
                   feedbacks, conv_delegate, chat_log, last_turn>>

\* A Pharmacy is deleted while its name stands in the list the delegate
\* is to choose from (one at most).
RemovePharmacy(id) ==
    /\ _get_session_state(chat_log) = AWAITING_PHARMACY
    /\ \A i \in DOMAIN pharmacies : pharmacies[i].id = i
    /\ pharmacies' = SelectSeq(pharmacies, LAMBDA row : row.id # id)
    /\ UNCHANGED <<vars, conversations, agentActive, reply, wa, qa, qna, visits, feedbacks,
                   conv_delegate, chat_log, last_turn>>

MaxSteps == 6

\* What a delegate writes at each point of the dialogue: the course the
\* answers propose, a greeting or a request for help, words the dialogue
\* does not know, and once a text in the form of a session row.
Script(session_state) ==
    CASE session_state = INITIAL ->
            {<<"farmacia", " ", "centro">>, <<"hola">>, <<"__STATE__", ":", "otro">>}
      [] session_state = AWAITING_PHARMACY -> {<<"1">>, <<"ayuda">>}
      [] session_state = PHARMACY_SELECTED -> {<<"1">>, <<"3">>, <<"hola">>}
      [] session_state = AWAITING_VISIT_ACTION -> {<<"salir">>, <<"ayuda">>}
      [] session_state = COLLECTING_FEEDBACK ->
            {<<"texto">>, <<"muy", " ", "bien">>, <<"buen", " ", "audio">>, <<"hola">>}
      [] session_state = READY_FOR_REPORT ->
            {<<"si">>, <<"no">>, <<"otra", " ", "visita">>, <<"ayuda">>}
      [] OTHER -> {<<"hola">>}

\* A message of the course of the dialogue is processed.
GuidedTurn(content) ==
    /\ NumTurns < MaxSteps
    /\ content \in Script(_get_session_state(chat_log))
    /\ Process(content, "none")

\* The engine, called for a message, has written its rows up to the k-th,
\* where the store failed.
Interrupted(content, done, k) ==
    /\ \E i \in DOMAIN done.turn.calls : done.turn.calls[i] = "SmartResponseEngine"
    /\ k \in DOMAIN done.engine.rows
    /\ chat_log' = Append(chat_log, ChatRow(content, "IN", TRUE))
                       \o SubSeq(done.engine.rows, 1, k - 1)
    /\ visits' = IF done.engine.visit = 0 THEN visits
                  ELSE Append(visits, Visit(Len(visits) + 1, done.engine.visit,
                                            conv_delegate, "PENDING"))
    /\ feedbacks' = feedbacks + done.engine.feedback
    /\ last_turn' = TurnRecord(content, <<"QAService", "SmartResponseEngine">>,
                               ENGINE_ERROR, done.turn.interactions, k - 1)

\* The store fails at the k-th Message.objects.create of the engine: the
\* rows before it stay (no transaction), so does the Visit or Feedback that
\* was created before the session was saved, and the except clause of
\* process_message answers with the error text.
TurnInterrupted(content, k) ==
    /\ NumTurns < MaxSteps
    /\ content \in Script(_get_session_state(chat_log))
    /\ Interrupted(content,
                   ChatProcessor_process_message(
                       content, Append(chat_log, ChatRow(content, "IN", FALSE)), "none"),
                   k)
    /\ UNCHANGED <<vars, conversations, agentActive, reply, wa, qa, qna, pharmacies,
                   conv_delegate>>

\* The delegate, in another conversation that selected the same Pharmacy
\* before any visit to it, chooses option 1 there: services.py 434-444 with
\* the session data of that conversation.
VisitElsewhere ==
    /\ _get_session_state(chat_log) = PHARMACY_SELECTED
    /\ LET pharmacy == Get(_get_session_data(chat_log), <<"selected_pharmacy">>)
       IN  /\ CanCreateVisit(pharmacy)
           /\ Get(pharmacy, <<"has_pending_visit">>) = JBool(FALSE)
           /\ \A i \in DOMAIN visits : visits[i].pharmacy # Get(pharmacy, <<"id">>).v
           /\ visits' = Append(visits, Visit(Len(visits) + 1, Get(pharmacy, <<"id">>).v,
                                             conv_delegate, "PENDING"))
    /\ UNCHANGED <<vars, conversations, agentActive, reply, wa, qa, qna, pharmacies,
                   feedbacks, conv_delegate, chat_log, last_turn>>

\* A Question may answer a greeting.
GreetingQuestions ==
    {Question(<<"h", "o", "l", "a">>, <<"h", "o", "l", "a">>, TRUE, 1)}

TurnTexts ==
    {<<"hola">>, <<"farmacia", " ", "centro">>, <<"buscar", " ", "sur">>, <<"1">>, <<"3">>,
     <<"6">>, <<"si">>, <<"__STATE__", ":", "ready_for_report">>}

\* -------------------------------------------------------------------- spec
MaxRows == 2 * MaxIn + 2 * (max_retries + 1) * MaxTasks

Init ==
    /\ msgs = << >>
    /\ qaRows = [i \in 1 .. MaxRows |-> 0]
    /\ storeUp = TRUE
    /\ tasks = << >>
    /\ conversations = << >>
    /\ agentActive = TRUE
    /\ reply = NoReply
    /\ locks = {}
    /\ handlers = << >>
    /\ tracked = << >>
    /\ questions = << >>
    /\ user_query = << >>
    /\ qa_match = NoMatch
    /\ qa_result = NoResult
    /\ qa_logged = 0
    /\ answers = << >>
    /\ adders = << >>
    /\ pharmacies = << >>
    /\ visits = << >>
    /\ feedbacks = 0
    /\ conv_delegate = NoDelegate
    /\ chat_log = << >>
    /\ last_turn = NoTurn

Arrive ==
    \/ \E text \in Texts : WebSend(text)
    \/ \E text \in Texts : WhatsAppInbound(text)
    \/ \E mid \in InboundIds \cup {NoSuchId} : LegacyEnqueue(mid)

First(t) == \A u \in TaskIds : t <= u

\* Workers run tasks side by side; the store stays up, so a run fails only
\* for a message that does not exist.
Next ==
    \/ Arrive /\ UNCHANGED front
    \/ \E t \in TaskIds : Step(t, Workers) /\ UNCHANGED front

Spec == Init /\ [][Next]_<<vars, front>>

\* One worker process with one thread: a run ends before the next one starts.
NextSerial ==
    \/ Arrive /\ UNCHANGED front
    \/ \E t \in TaskIds : Step(t, 1) /\ UNCHANGED front

SpecSerial == Init /\ [][NextSerial]_<<vars, front>>

\* No run of any task has begun.
NoneStarted == \A t \in TaskIds : tasks[t].pc = "queued" /\ tasks[t].runs = 0

\* The store may go down and come back at any moment, while the worker is
\* busy with the first task it was given and later tasks wait in the queue;
\* the messages of the conversation are in before the worker starts.
NextOutage ==
    \/ \E text \in Texts : NoneStarted /\ WebSend(text) /\ UNCHANGED front
    \/ StoreDown /\ UNCHANGED front
    \/ StoreUp /\ UNCHANGED front
    \/ \E t \in TaskIds : First(t) /\ Run(t, 1) /\ UNCHANGED front
    \/ \E t \in TaskIds : First(t) /\ Recover(t) /\ UNCHANGED front

SpecOutage == Init /\ [][NextOutage]_<<vars, front>>

\* One worker, web messages, a store that stays up and an LLM call that may
\* raise.
NextLLM ==
    \/ \E text \in Texts : WebSend(text) /\ UNCHANGED front
    \/ \E t \in TaskIds : Run(t, 1) /\ UNCHANGED front
    \/ \E t \in TaskIds : PipelineLLMError(t) /\ UNCHANGED front

SpecLLM == Init /\ [][NextLLM]_<<vars, front>>

\* Web requests of the delegates, nothing else.
NextWeb ==
    \/ \E d \in Delegates, c \in 0 .. MaxConvs, m \in PostedTexts : send_message(d, c, m)
    \/ \E d \in Delegates, c \in 0 .. MaxConvs, m \in PostedTexts :
          send_chat_message(d, c, m)
    \/ AgentSwitch

SpecWeb == Init /\ [][NextWeb]_<<vars, front>>

\* Deliveries of the webhook and their handlers on concurrent workers.
NextWhatsApp ==
    \/ \E sid \in MessageSids, content \in {"", "faq"} : Deliver(sid, content)
    \/ \E h \in HandlerIds : handle_whatsapp_message(h)
    \/ AgentSwitch

SpecWhatsApp == Init /\ [][NextWhatsApp]_<<vars, front>>

\* add_answer requests, served by concurrent request handlers.
NextAnswers ==
    \/ \E pk \in QuestionIds, text \in PostedAnswers, is_default \in BOOLEAN :
          add_answer(pk, text, is_default)
    \/ \E a \in DOMAIN adders : Clear(a)
    \/ \E a \in DOMAIN adders : Create(a)

SpecAnswers == Init /\ [][NextAnswers]_<<vars, front>>

\* The Question rows an administrator may have entered.
QuestionPool ==
    { Question(<<"a", "b", " ", "a">>, << >>, TRUE, 1),
      Question(<<"A", "b", " ", " ", "a">>, <<"a", "b">>, TRUE, 1),
      Question(<<"b", "a", "b">>, <<"b", " ", "a", ",", " ", "b", "b">>, TRUE, 1),
      Question(<<"b", "a", "b">>, << >>, TRUE, 0),
      Question(<<"a", "b", "a">>, <<"a", "b", "a">>, FALSE, 1) }

AddQuestion(question) ==
    /\ Len(questions) < MaxQuestions
    /\ ~Asked
    /\ questions' = Append(questions, question)
    /\ UNCHANGED <<vars, conversations, agentActive, reply, wa, qna, dlg, user_query, qa_match,
                   qa_result, qa_logged>>

\* The caller has its result; the next query is a call of its own.
Return ==
    /\ Asked
    /\ user_query' = << >>
    /\ qa_match' = NoMatch
    /\ qa_result' = NoResult
    /\ qa_logged' = 0
    /\ UNCHANGED <<vars, conversations, agentActive, reply, wa, qna, dlg, questions>>

\* Questions are entered and queries are put to QAService, one at a time.
NextQA ==
    \/ \E question \in QuestionPool : AddQuestion(question)
    \/ \E query \in Strings(MaxLen) : Ask(query)
    \/ Return

SpecQA == Init /\ [][NextQA]_<<vars, front>>

\* One conversation, its messages processed one after the other.
NextDialogue ==
    \/ \E k \in {0, 2, MaxPharmacies} : LoadDirectory(k)
    \/ \E question \in GreetingQuestions :
          questions = << >> /\ Untouched /\ AddQuestion(question)
    \/ Identify("Ana")
    \/ RegisterVisit
    \/ RemovePharmacy(1)
    \/ \E content \in TurnTexts :
          \E raised \in IF Affirms(content) THEN {"none", "Timeout"} ELSE {"none"} :
              Turn(content, raised)

SpecDialogue == Init /\ [][NextDialogue]_<<vars, front>>

\* One conversation that follows the course of the dialogue.
NextCourse ==
    \/ LoadDirectory(2)
    \/ Identify("Ana")
    \/ RegisterVisit
    \/ \E content \in Script(_get_session_state(chat_log)) : GuidedTurn(content)

SpecCourse == Init /\ [][NextCourse]_<<vars, front>>

\* The same, while the store may fail under the engine and the delegate may
\* use another conversation.
NextFlow ==
    \/ NextCourse
    \/ VisitElsewhere
    \/ \E content \in Script(_get_session_state(chat_log)) :
          \E k \in 1 .. 2 : TurnInterrupted(content, k)

SpecFlow == Init /\ [][NextFlow]_<<vars, front>>

\* ------------------------------------------------------------------ claims
TasksOf(m) == {t \in TaskIds : tasks[t].mid = m}

Finished(t) == tasks[t].pc \in {"SUCCESS", "FAILURE"}

AllFinished == tasks # << >> /\ \A t \in TaskIds : Finished(t)

\* Every run of every task enqueued for m has ended.
Settled(m) == TasksOf(m) # {} /\ \A t \in TasksOf(m) : Finished(t)

\* The outgoing rows a task of m wrote last.
AnswersFor(m) == {i \in Ids : msgs[i].direction = "OUT" /\ msgs[i].by = m}

AnswerTexts == {"qa", "engine", "llm"}

\* The placeholder rows that hold the answer computed for m.
ResolvedWith(m) ==
    {i \in Ids : msgs[i].of # 0 /\ msgs[i].content.k \in AnswerTexts
                                /\ msgs[i].content.m = m}

\* C1: once every run for an inbound message has ended, the conversation
\* holds exactly one outgoing row written for it.
C1_ExactlyOneAnswer ==
    \A m \in InboundIds : Settled(m) => Cardinality(AnswersFor(m)) = 1

\* C2: every placeholder is eventually replaced; stated on the states where
\* every task has ended, after which no run is left to replace one.
C2_NoPlaceholderLeft == AllFinished => Pending(msgs) = {}

\* C3: two runs for the same message, both ended in success, leave exactly
\* one placeholder resolved with that message's answer, and once every task
\* has ended no row is still a placeholder.
C3_TwoRunsOneResolved ==
    \A m \in InboundIds :
        (Cardinality(TasksOf(m)) >= 2 /\ \A t \in TasksOf(m) : tasks[t].pc = "SUCCESS")
        => /\ Cardinality(ResolvedWith(m)) = 1
           /\ AllFinished => Pending(msgs) = {}

\* What one failure-free run for the task's message logs: a QAInteraction
\* row if an active Question matches its text.
FailureFreeRows(r) == IF r.mid \in Ids /\ QAMatches(msgs[r.mid].content.k) THEN 1 ELSE 0

\* Every placeholder row is one handle_incoming_message created.
NoNewPlaceholder == \A i \in Pending(msgs) : msgs[i].of # 0

\* C4, as claimed: over all its runs a task creates no placeholder and logs
\* at most one QAInteraction row more than a failure-free run.
C4_AtMostOneExtraRow ==
    /\ NoNewPlaceholder
    /\ \A t \in TaskIds : tasks[t].rows <= FailureFreeRows(tasks[t]) + 1

\* C4, amended: over all its runs a task creates no placeholder and logs at
\* most one QAInteraction row per run, hence at most max_retries rows more
\* than a failure-free run, and none for a text no Question matches.
C4_AtMostOneRowPerRun ==
    /\ NoNewPlaceholder
    /\ \A t \in TaskIds :
          /\ tasks[t].rows <= tasks[t].runs
          /\ tasks[t].rows <= FailureFreeRows(tasks[t]) + max_retries
          /\ FailureFreeRows(tasks[t]) = 0 => tasks[t].rows = 0

C4_Witness ==
    \E t \in TaskIds : tasks[t].pc = "FAILURE" /\ tasks[t].rows = max_retries + 1

\* C5, as claimed: a task is executed at most 3 times.
C5_AtMostThreeRuns == \A t \in TaskIds : tasks[t].runs <= 3

\* C5, amended: a task is executed at most max_retries + 1 = 4 times, the
\* retries scheduled with countdowns 1, 2 and 4, and it ends in failure only
\* after the fourth run.
C5_AtMostFourRuns ==
    \A t \in TaskIds :
        LET r == tasks[t]
        IN  /\ r.retries <= max_retries
            /\ r.runs <= max_retries + 1
            /\ r.runs = r.retries + (IF r.pc = "queued" THEN 0 ELSE 1)
            /\ r.countdown = CASE r.retries = 0 -> 0
                               [] r.retries = 1 -> 1
                               [] r.retries = 2 -> 2
                               [] OTHER -> 4
            /\ r.pc = "FAILURE" => r.runs = max_retries + 1

C5_Witness ==
    \E t \in TaskIds : tasks[t].pc = "FAILURE" /\ tasks[t].mid \in Ids /\ tasks[t].runs = 4

\* C6, as claimed: a task for a message that does not exist is never retried.
C6_MissingNeverRetried ==
    \A t \in TaskIds : tasks[t].mid \notin Ids => tasks[t].retries = 0

\* C6, amended: a task for a message that does not exist is re-queued by each
\* of its first max_retries runs and ends in failure with the next one; no run
\* of it gets past loading the message.
C6_MissingRetriedThenFails ==
    \A t \in TaskIds :
        LET r == tasks[t]
        IN  r.mid \notin Ids =>
              /\ r.pc \in {"queued", "FAILURE"}
              /\ r.pc = "queued" => r.runs = r.retries /\ r.retries <= max_retries
              /\ r.pc = "FAILURE" => r.runs = max_retries + 1 /\ r.retries = max_retries

C6_Witness ==
    \E t \in TaskIds : tasks[t].mid \notin Ids /\ tasks[t].pc = "FAILURE"

\* C7: when a task for an existing message has exhausted its retries, the
\* placeholder created for that message no longer reads "Procesando
\* respuesta...", unless the last handler's write raised and was swallowed.
C7_ApologyAfterExhaustion ==
    \A t \in TaskIds :
        (tasks[t].pc = "FAILURE" /\ tasks[t].mid \in Ids) =>
            \/ \A i \in Ids : msgs[i].of = tasks[t].mid => msgs[i].content # PLACEHOLDER
            \/ tasks[t].swallowed

\* C8: the step that calls the WhatsApp sender always goes on to the
\* conversation update with the retry count unchanged, and a run whose send
\* failed ends in SUCCESS with the answer still in its response row.
C8_SendFailureTolerated ==
    [][\A t \in TaskIds :
          LET r == tasks[t]
          IN  /\ (r.pc = "send" /\ tasks'[t] # r) =>
                    /\ tasks'[t].pc = "touch"
                    /\ tasks'[t].retries = r.retries
                    /\ msgs'[r.response_message].content = r.response
              /\ (r.pc = "touch" /\ r.sendFailed /\ tasks'[t] # r) =>
                    /\ tasks'[t].pc = "SUCCESS"
                    /\ msgs'[r.response_message].content = r.response]_vars

C8_Witness ==
    \E t \in TaskIds :
        /\ tasks[t].source = "whatsapp"
        /\ tasks[t].pc = "touch"
        /\ tasks[t].sendFailed
        /\ msgs[tasks[t].response_message].content = tasks[t].response

\* C9: a run that found no placeholder appends one OUT row that carries its
\* response (the answer, or the error text when the responder failed), and a
\* row created so is never rewritten.
C9_CreatesWhenNoPlaceholder ==
    [][/\ \A t \in TaskIds :
            LET r == tasks[t]
            IN  (r.pc \in {"write", "report"} /\ r.placeholder = 0 /\ storeUp
                    /\ tasks'[t] # r) =>
                  /\ Len(msgs') = Len(msgs) + 1
                  /\ SubSeq(msgs', 1, Len(msgs)) = msgs
                  /\ msgs'[Len(msgs')].direction = "OUT"
                  /\ msgs'[Len(msgs')].ai_processed
                  /\ msgs'[Len(msgs')].content =
                        IF r.pc = "write" THEN r.response ELSE ERROR_RESPONSE
       /\ \A i \in Ids :
            (msgs[i].direction = "OUT" /\ msgs[i].of = 0) => msgs'[i] = msgs[i]]_vars

C9_Witness ==
    \E i \in Ids :
        /\ msgs[i].direction = "OUT"
        /\ msgs[i].of = 0
        /\ msgs[i].content.k \in AnswerTexts

LLMErrorText(e) ==
    CASE e = "AuthenticationError" -> LLM_AUTH_ERROR
      [] e = "APIError" -> LLM_API_ERROR
      [] e = "Timeout" -> LLM_TIMEOUT_ERROR
      [] OTHER -> LLM_UNEXPECTED_ERROR

C11_LLMFailureIsAnAnswer ==
    [][\A t \in TaskIds :
          LET r == tasks[t]
              row == IF r.placeholder # 0 THEN r.placeholder ELSE Len(msgs) + 1
          IN  /\ (tasks'[t].pc \in {"write", "report"} /\ tasks'[t].raised # "none") =>
                    /\ tasks'[t].pc = "write"
                    /\ tasks'[t].success
                    /\ tasks'[t].response = LLMErrorText(tasks'[t].raised)
                    /\ msgs'[r.mid].ai_processed
              /\ (r.pc = "write" /\ r.raised # "none" /\ tasks'[t] # r) =>
                    /\ msgs'[row].content = LLMErrorText(r.raised)
                    /\ msgs'[row].direction = "OUT"
                    /\ tasks'[t].pc = "touch"
                    /\ tasks'[t].retries = r.retries
              /\ (r.pc = "touch" /\ r.raised # "none" /\ tasks'[t] # r) =>
                    tasks'[t].pc = "SUCCESS"]_vars

C11_Witness ==
    \E t \in TaskIds :
        /\ tasks[t].pc = "touch"
        /\ tasks[t].raised = "Timeout"
        /\ tasks[t].placeholder # 0
        /\ msgs[tasks[t].placeholder].content = LLM_TIMEOUT_ERROR

C13_OneActivePerCounterparty ==
    \A i, j \in ConversationIds :
        ( /\ conversations[i].is_active
          /\ conversations[j].is_active
          /\ conversations[i].client_phone = conversations[j].client_phone ) => i = j

\* C16: no IN row holds a text that is empty or only whitespace.
C16_NoBlankInbound ==
    \A i \in InboundIds : strip(msgs[i].content.k) # ""

\* C17: a web request with a text, for which no conversation of the delegate
\* is found (send_message: no conversation with that id at all) while no
\* agent is active, is answered 400 "no agents available" and changes no
\* Conversation, no Message and no task.
Unresolved(q) ==
    IF q.view = "send_message"
    THEN q.conversation_id \notin ConversationIds
    ELSE ~ ( /\ q.conversation_id \in ConversationIds
             /\ conversations[q.conversation_id].delegate = q.delegate )

HasText(q) ==
    IF q.view = "send_message" THEN strip(q.message) # "" ELSE q.message # ""

C17_NoAgentNoConversation ==
    [][( /\ reply' # reply \/ msgs' # msgs
         /\ ~agentActive
         /\ HasText(reply'.request)
         /\ Unresolved(reply'.request) ) =>
            /\ reply'.status = 400
            /\ reply'.error \in {"No hay agentes disponibles en este momento.",
                                 "No hay agentes disponibles"}
            /\ UNCHANGED <<conversations, msgs, tasks>>]_<<vars, front>>

C17_Witness ==
    /\ ~agentActive
    /\ reply.status = 400
    /\ reply.error = "No hay agentes disponibles"
    /\ reply.request.view = "send_chat_message"
    /\ reply.request.conversation_id \in ConversationIds
    /\ msgs # << >>

\* C14: however often one external message id is delivered, at most one
\* message is persisted for it and at most one process_message task is
\* enqueued for it.
PersistedFor(sid) == {i \in DOMAIN tracked : tracked[i].whatsapp_message_id = sid}

EnqueuedFor(sid) ==
    {t \in TaskIds : \E i \in PersistedFor(sid) : tracked[i].message = tasks[t].mid}

C14_DuplicateDeliveryOnce ==
    \A sid \in MessageSids :
        /\ Cardinality(PersistedFor(sid)) <= 1
        /\ Cardinality(EnqueuedFor(sid)) <= 1

\* C15: of two tasks for different messages of the conversation, the one
\* enqueued later has not got as far as selecting its placeholder unless the
\* one enqueued earlier has finished.
HasSelected(t) == tasks[t].pc \notin {"queued", "select"}

C15_EnqueueOrder ==
    \A t, u \in TaskIds :
        ( /\ t < u
          /\ tasks[t].mid \in Ids
          /\ tasks[u].mid \in Ids
          /\ tasks[t].mid < tasks[u].mid
          /\ HasSelected(u) ) => Finished(t)

\* The rows SmartResponseEngine keeps its session in.
IsSynthetic(row) == row.content \in {STATE_ROW, DATA_ROW}

\* services.py 577-587: the last 5 rows that are not synthetic, oldest first
RECURSIVE LastOf(_, _)
LastOf(ids, n) ==
    IF n = 0 \/ ids = {} THEN << >>
    ELSE LastOf(ids \ {Max(ids)}, n - 1) \o << Max(ids) >>

build_message_context(ms) ==
    LastOf({i \in DOMAIN ms : ~IsSynthetic(ms[i])}, 5)

\* views.py 438-477: Message.objects.filter(conversation_id).order_by('timestamp')
get_conversation_messages(ms) == [i \in DOMAIN ms |-> i]

\* views.py 515-542: nothing while a placeholder is pending, else the latest
\* OUT row that is not a placeholder (0: none)
get_latest_response(ms) ==
    LET out == {i \in DOMAIN ms : ms[i].direction = "OUT" /\ ms[i].content # PLACEHOLDER}
    IN  IF Pending(ms) # {} \/ out = {} THEN 0 ELSE Max(out)

\* C18: none of the three queries returns a row whose content starts with
\* "__STATE__:" or "__DATA__:".
C18_SyntheticRowsHidden ==
    /\ \A i \in Range(build_message_context(msgs)) : ~IsSynthetic(msgs[i])
    /\ \A i \in Range(get_conversation_messages(msgs)) : ~IsSynthetic(msgs[i])
    /\ get_latest_response(msgs) # 0 => ~IsSynthetic(msgs[get_latest_response(msgs)])


\* The active Questions whose normalized text is the normalized query.
SameText(query) ==
    {q \in Active : _normalize_text(questions[q].text) = _normalize_text(query)}

\* C19: a query of at least 3 characters that equals, after normalization,
\* the text of an active Question is matched to such a Question with
\* confidence 1.0, whatever other Questions and keyword lists there are.
C19_ExactTextMatches ==
    (Len(Strip(user_query)) >= 3 /\ SameText(user_query) # {})
        => /\ qa_match.question \in SameText(user_query)
           /\ qa_match.confidence[1] = qa_match.confidence[2]

\* C20: a query shorter than 3 characters after trimming gets no match,
\* confidence 0 and no QAInteraction row.
C20_ShortQueryNoMatch ==
    Len(Strip(user_query)) < 3
        => /\ qa_match = NoMatch
           /\ qa_result = NoResult
           /\ qa_logged = 0

\* A two-character query that is the keyword of an active Question which
\* has an Answer has been put.
C20_Witness ==
    /\ user_query = <<"a", "b">>
    /\ \E q \in Active :
          /\ get_answer(q)
          /\ AtLeastThreshold(KeywordScore(q, _normalize_text(user_query)))
    /\ qa_result = NoResult


\* C21: process_query logs exactly one QAInteraction row when it returns
\* success and none when it returns no match, be it for a score below the
\* threshold or for a matched Question without an Answer.
C21_OneRowOnSuccess ==
    /\ qa_result.success => qa_logged = 1
    /\ ~qa_result.success => qa_logged = 0
    /\ qa_result.success <=>
          /\ qa_match.question # 0
          /\ AtLeastThreshold(qa_match.confidence)
          /\ get_answer(qa_match.question)

\* A query has matched a Question that has no Answer.
C21_Witness ==
    /\ qa_match.question # 0
    /\ ~get_answer(qa_match.question)
    /\ ~qa_result.success
    /\ \E q \in Active : get_answer(q)


DefaultAnswers(pk) ==
    {i \in DOMAIN answers : answers[i].question = pk /\ answers[i].is_default}

\* C22: whatever add_answer calls are made, with or without is_default and
\* however they interleave, a Question has at most one default Answer.
C22_AtMostOneDefault ==
    \A pk \in QuestionIds : Cardinality(DefaultAnswers(pk)) <= 1

\* The log the engine of the turn being taken reads: the rows so far and
\* the row of the message itself.
SeenLog == Append(chat_log, ChatRow(last_turn'.message, "IN", FALSE))

TurnTaken == NumTurns' = NumTurns + 1

CalledIn(turn, collaborator) == \E i \in DOMAIN turn.calls : turn.calls[i] = collaborator

NoSession(log) == LatestWith(log, STATE_PREFIX) = 0 /\ LatestWith(log, DATA_PREFIX) = 0

Matched(message_text) ==
    LET terms == Strip(WithoutFarmacia(lower(message_text)))
    IN  IF CharLen(terms) < 3 THEN 0 ELSE Len(Matching(terms))

Min(a, b) == IF a < b THEN a ELSE b

\* The numbered lines of an answer.
NumberedEntries(response) ==
    Cardinality({i \in 1 .. Len(response) - 1 : IsDigit(response[i]) /\ response[i + 1] = ". "})

StoredList(log) == Get(_get_session_data(log), <<"pharmacies">>)

C25_SelectionWithinList ==
    [][(/\ TurnTaken
        /\ CalledIn(last_turn', "SmartResponseEngine")
        /\ _get_session_state(SeenLog) = AWAITING_PHARMACY
        /\ StoredList(SeenLog).t = "list"
        /\ isdigit(last_turn'.message))
          => LET i == IntOf(last_turn'.message)
                 listed == StoredList(SeenLog).v
                 detail == Get(_get_session_data(chat_log'), <<"selected_pharmacy">>)
             IN  IF 1 <= i /\ i <= Len(listed)
                 THEN /\ _get_session_state(chat_log') = PHARMACY_SELECTED
                      /\ detail.t = "dict"
                      /\ Get(detail, <<"id">>) = Get(listed[i], <<"id">>)
                      /\ Get(detail, <<"name">>) = Get(listed[i], <<"name">>)
                 ELSE /\ last_turn'.response = INVALID_SELECTION
                      /\ last_turn'.written = 0
                      /\ _get_session_state(chat_log') = AWAITING_PHARMACY]_<<vars, front>>

\* Session data of the three shapes the engine saves: no data, the detail
\* of a pharmacy, and a pharmacy with its recent visits.
SampleData ==
    { JDict(<< >>),
      JDict(<< <<<<"selected_pharmacy">>,
                 JDict(<< <<<<"id">>, JInt(1)>>,
                          <<<<"name">>, JStr(<<"Botica", " ", "\"", "Espa", "ñ", "a", "\"">>)>>,
                          <<<<"address">>, JStr(<<"Plaza", ":", " ", "\\", "1">>)>>,
                          <<<<"last_visit_date">>, JNull>>,
                          <<<<"last_visit_id">>, JInt(2)>>,
                          <<<<"has_pending_visit">>, JBool(FALSE)>> >>)>> >>),
      JDict(<< <<<<"selected_pharmacy">>, JDict(<< >>)>>,
               <<<<"visits">>,
                 JList(<< JDict(<< <<<<"id">>, JInt(1)>>,
                                   <<<<"date">>, JStr(VISIT_DATE)>>,
                                   <<<<"status">>, JStr(<<"Pendiente">>)>> >>),
                          JDict(<< <<<<"id">>, JInt(2)>>,
                                   <<<<"date">>, JStr(VISIT_DATE)>>,
                                   <<<<"status">>, JStr(<<"Completada">>)>> >>) >>)>> >>) }

SessionStates ==
    {INITIAL, AWAITING_PHARMACY, PHARMACY_SELECTED, AWAITING_VISIT_ACTION,
     COLLECTING_FEEDBACK, READY_FOR_REPORT}

\* The log after the two saves.
Saved(log, state, data) == log \o <<_save_session_state(state), _save_session_data(data)>>

\* C26: the session derived for a conversation is that of its latest
\* '__STATE__:' and '__DATA__:' rows, INITIAL and the empty map without
\* them, and after _save_session_state(S) and _save_session_data(D) a new
\* engine recovers exactly (S, D).
C26_SessionRoundTrip ==
    /\ NoSession(chat_log) =>
          /\ _get_session_state(chat_log) = INITIAL
          /\ _get_session_data(chat_log) = JDict(<< >>)
    /\ \A state \in SessionStates :
          _get_session_state(Saved(chat_log, state, JDict(<< >>))) = state
    /\ \A data \in SampleData \cup {_get_session_data(chat_log)} :
          /\ _get_session_data(Saved(chat_log, INITIAL, data)) = data
          /\ _get_session_state(Saved(chat_log, INITIAL, data)) = INITIAL

\* The engine has stored the pharmacy of the south, whose address holds a
\* colon, quotes, a backslash and a letter that is not ASCII, and a new engine
\* reads the list back.
C26_Witness ==
    /\ _get_session_state(chat_log) = AWAITING_PHARMACY
    /\ \E i \in DOMAIN pharmacies :
          /\ pharmacies[i].name = <<"Botica", " ", "Sur">>
          /\ _get_session_data(chat_log) = PharmacyList(<<PharmacyEntry(pharmacies[i])>>)

\* C27: a placeholder that one run of process_message has resolved is never
\* overwritten by another run for the same message.
C27_ResolvedNotOverwritten ==
    [][\A i \in DOMAIN msgs :
          (/\ msgs[i].of # 0
           /\ msgs[i].content # PLACEHOLDER
           /\ msgs'[i].by = msgs[i].by)
             => msgs'[i].content = msgs[i].content]_<<vars, front>>

\* C28: an answer that goes into a placeholder goes into the one
\* handle_incoming_message created for the message the answer is for.
C28_OwnPlaceholder ==
    [][\A i \in DOMAIN msgs :
          (/\ msgs[i].content = PLACEHOLDER
           /\ msgs'[i].content \notin Apologies \cup {PLACEHOLDER})
             => msgs'[i].by = msgs[i].of]_<<vars, front>>

\* C29: after an attempt has written the answer into the placeholder, nothing
\* that fails later in that attempt puts an apology in its place.
C29_AnswerNotReplaced ==
    [][\A t \in TaskIds :
          (/\ tasks[t].pc \notin Idle
           /\ tasks[t].response_message # 0
           /\ tasks[t].response_message = tasks[t].placeholder
           /\ msgs[tasks[t].response_message].content = tasks[t].response)
             => msgs'[tasks[t].response_message].content \notin Apologies]_<<vars, front>>

\* C30: for each inbound WhatsApp message that handle_whatsapp_message has
\* persisted, process_message is enqueued exactly once.
C30_OneEnqueuePerMessage ==
    \A i \in DOMAIN tracked :
        Cardinality({t \in TaskIds : tasks[t].mid = tracked[i].message}) = 1

\* C31: over all the attempts of handle_whatsapp_message for one delivery of
\* an external message id, at most one IN row with its placeholder is
\* persisted.
C31_OnePersistPerDelivery == \A h \in HandlerIds : handlers[h].persisted <= 1

\* C33: persisting an inbound message, whatever its text, leaves the session
\* state and data derived for the conversation as they were.
C33_InboundLeavesSession ==
    [][TurnTaken =>
          /\ _get_session_state(SeenLog) = _get_session_state(chat_log)
          /\ _get_session_data(SeenLog) = _get_session_data(chat_log)]_<<vars, front>>

\* The Pharmacy a message refers to is gone: the one chosen from the stored
\* list, or the selected one an option is asked for.
RefersToMissing(message_text, log) ==
    LET session_data == _get_session_data(log)
        listed == Get(session_data, <<"pharmacies">>)
        selected == Get(session_data, <<"selected_pharmacy">>)
    IN  /\ isdigit(message_text)
        /\ \/ /\ _get_session_state(log) = AWAITING_PHARMACY
              /\ listed.t = "list"
              /\ IntOf(message_text) \in 1 .. Len(listed.v)
              /\ ~Exists(Get(listed.v[IntOf(message_text)], <<"id">>).v)
           \/ /\ _get_session_state(log) = PHARMACY_SELECTED
              /\ IntOf(message_text) \in 1 .. 4
              /\ selected.t = "dict"
              /\ Has(selected, <<"id">>)
              /\ ~Exists(Get(selected, <<"id">>).v)

\* C35: when the pharmacy a selection or the session data refers to no
\* longer exists, the engine writes no session row: the state derived after
\* the call is the state before it.
C35_MissingDoesNotAdvance ==
    [][(/\ TurnTaken
        /\ CalledIn(last_turn', "SmartResponseEngine")
        /\ RefersToMissing(last_turn'.message, SeenLog))
          => /\ last_turn'.written = 0
             /\ _get_session_state(chat_log') = _get_session_state(SeenLog)]_<<vars, front>>

\* C32: the session state derived for the conversation is always one of the
\* six values of SESSION_STATES.
C32_StateIsOneOfSix == _get_session_state(chat_log) \in SessionStates

\* The rows the latest call of the engine wrote
Written == SubSeq(chat_log', Len(chat_log') - last_turn'.written + 1, Len(chat_log'))

\* C36: when the engine answers with the generic error text it has written
\* both the '__STATE__:' and the '__DATA__:' row of a transition, or neither.
C36_PairOrNothing ==
    [][(TurnTaken /\ last_turn'.response = ENGINE_ERROR)
          => ((\E i \in DOMAIN Written : StartsWith(Written[i].content, STATE_PREFIX))
                <=> (\E i \in DOMAIN Written : StartsWith(Written[i].content, DATA_PREFIX)))
      ]_<<vars, front>>

\* A PENDING Visit of the delegate to the Pharmacy is in the store.
PendingInStore(pharmacy_id) ==
    \E i \in DOMAIN visits :
        /\ visits[i].pharmacy = pharmacy_id
        /\ visits[i].delegate = conv_delegate
        /\ visits[i].status = "PENDING"

\* C38: option 1 in PHARMACY_SELECTED creates a Visit only if the store holds
\* no PENDING Visit of the delegate to the selected Pharmacy at that moment;
\* with one it creates none and the state stays PHARMACY_SELECTED.
C38_NoSecondPendingVisit ==
    [][(/\ TurnTaken
        /\ CalledIn(last_turn', "SmartResponseEngine")
        /\ last_turn'.message = <<"1">>
        /\ _get_session_state(SeenLog) = PHARMACY_SELECTED
        /\ Has(Get(_get_session_data(SeenLog), <<"selected_pharmacy">>), <<"id">>)
        /\ PendingInStore(Get(Get(_get_session_data(SeenLog), <<"selected_pharmacy">>),
                              <<"id">>).v))
          => /\ visits' = visits
             /\ _get_session_state(chat_log') = PHARMACY_SELECTED]_<<vars, front>>

\* The text is one the engine takes for a greeting or a request for help.
Canned(message_text) == _detect_intent(message_text) \in {"greeting", "help"}

\* C39: in COLLECTING_FEEDBACK with the medium TEXT chosen a message that is
\* neither greeting nor help persists exactly one Feedback row and moves the
\* session to READY_FOR_REPORT; before a medium is chosen, or with AUDIO, no
\* Feedback row is written and the state stays COLLECTING_FEEDBACK.
C39_FreeTextIsFeedback ==
    [][(/\ TurnTaken
        /\ CalledIn(last_turn', "SmartResponseEngine")
        /\ last_turn'.response # ENGINE_ERROR
        /\ _get_session_state(SeenLog) = COLLECTING_FEEDBACK
        /\ Has(_get_session_data(SeenLog), <<"feedback_visit_id">>)
        /\ ~Canned(last_turn'.message))
          => IF Get(_get_session_data(SeenLog), <<"feedback_type">>) = JStr(<<"TEXT">>)
             THEN /\ feedbacks' = feedbacks + 1
                  /\ _get_session_state(chat_log') = READY_FOR_REPORT
             ELSE /\ feedbacks' = feedbacks
                  /\ _get_session_state(chat_log') = COLLECTING_FEEDBACK]_<<vars, front>>

\* C37: a message the engine classifies as greeting or help gets the canned
\* reply in every session state, and the engine writes no session row: the
\* state and data derived after the call are those derived before it.
C37_CannedLeavesSession ==
    [][(/\ TurnTaken
        /\ CalledIn(last_turn', "SmartResponseEngine")
        /\ Canned(last_turn'.message))
          => /\ last_turn'.response =
                    (IF _detect_intent(last_turn'.message) = "greeting"
                     THEN Greeting(conv_delegate) ELSE HELP)
             /\ last_turn'.written = 0
             /\ chat_log' = Append(chat_log, ChatRow(last_turn'.message, "IN", TRUE))
             /\ _get_session_state(chat_log') = _get_session_state(SeenLog)
             /\ _get_session_data(chat_log') = _get_session_data(SeenLog)]_<<vars, front>>

\* Help was asked for and given after the feedback, in READY_FOR_REPORT.
C37_Witness ==
    /\ last_turn.message = <<"ayuda">>
    /\ last_turn.response = HELP
    /\ _get_session_state(chat_log) = READY_FOR_REPORT
    /\ feedbacks = 1

\* The words of confirmation, as words of the message
AFFIRMATIVE == {"si", "sí", "generar", "continue", "ok"}

\* C40: ChatGPTService is called only for a message QAService did not answer,
\* in READY_FOR_REPORT, that holds a word of confirmation; in every other
\* state a message QAService did not answer gets the reply of the engine and
\* ChatGPTService is not called.
C40_LLMOnlyOnConfirmation ==
    [][TurnTaken =>
          /\ CalledIn(last_turn', "ChatGPTService")
                => /\ CalledIn(last_turn', "SmartResponseEngine")
                   /\ _get_session_state(SeenLog) = READY_FOR_REPORT
                   /\ \E i \in DOMAIN last_turn'.message :
                          lower(last_turn'.message)[i] \in AFFIRMATIVE
          /\ (_get_session_state(SeenLog) # READY_FOR_REPORT
                  /\ last_turn'.calls # <<"QAService">>)
                => last_turn'.calls = <<"QAService", "SmartResponseEngine">>
      ]_<<vars, front>>

\* What a delegate may write, texts in the form of a session row left out
Words ==
    {text \in UNION {Script(state) : state \in SessionStates} :
        ~StartsWith(text, STATE_PREFIX) /\ ~StartsWith(text, DATA_PREFIX)}

\* The log after a message was processed (the rows of the engine only: the
\* Visit and Feedback rows it creates do not enter the derived state).
After(log, text) ==
    Append(log, ChatRow(text, "IN", TRUE))
        \o ChatProcessor_process_message(
               text, Append(log, ChatRow(text, "IN", FALSE)), "none").engine.rows

\* One message, or two, lead from the state of the log to another state.
CanLeave(log) ==
    \E first \in Words :
        \/ _get_session_state(After(log, first)) # _get_session_state(log)
        \/ \E second \in Words :
              _get_session_state(After(After(log, first), second)) # _get_session_state(log)

\* C34: no session state is absorbing: in each of the six states of a
\* conversation of a delegate, with pharmacies in the directory, some message
\* or messages lead to a different state.
C34_NoStateAbsorbing ==
    (/\ conv_delegate # NoDelegate
     /\ pharmacies # << >>
     /\ _get_session_state(chat_log) \in SessionStates)
        => CanLeave(chat_log)

====
